---- MODULE Spec2Model ----
(***************************************************************************)
(* Identity, session and claim-verification subsystem of                   *)
(* oracle-universe-api.                                                    *)
(*                                                                         *)
(* The durable state is the external record store: the `humans` and       *)
(* `oracles` collections.  Every request handler is a function of the     *)
(* request and of the store; it returns a response and a new store.       *)
(***************************************************************************)
EXTENDS Integers, Sequences, FiniteSets, TLC

VARIABLES
  humans,   \* the `humans` collection of the record store
  oracles,  \* the `oracles` collection of the record store
  clock,    \* Date.now(), in milliseconds
  jwt,      \* the session token in the bearer's hand, and how it was made
  verdict,  \* the last verifyJWT call: what it was given and what it returned
  proc,     \* the handler invocations in flight: where each is, what it holds
  faults,   \* how many more calls the record store will fail
  posts,    \* the `posts` collection, each row with its vote counts
  comments, \* the `comments` collection
  notifications, \* the `notifications` collection
  votes,    \* the `votes` collection
  agents    \* the `agents` collection

storeVars == <<humans, oracles>>
jwtVars == <<clock, jwt, verdict>>
runVars == <<proc, faults>>
feedVars == <<posts, comments, notifications, votes, agents>>
vars == <<humans, oracles, clock, jwt, verdict, proc, faults,
          posts, comments, notifications, votes, agents>>

(***************************************************************************)
(* Values                                                                  *)
(***************************************************************************)
None == "none"          \* undefined / absent field
NoWallet == ""          \* an oracle without bot_wallet (falsy in the code)
Malformed == "malformed" \* signature bytes viem cannot recover from
Garbage == "0xdead"     \* address recovered from a signature over other bytes
Unavailable == "unavailable" \* the price-oracle call throws

\* Lowercase wallet addresses (the keys that sign) and the mixed-case
\* spellings a request or an issue body may carry.
Wallets == {"0xa", "0xb", "0xc"}
RawWallets == Wallets \cup {"0xA", "0xB"}
Users == {"nat", "alice"}
Births == {"x", "y"}

\* The author of a birth issue is a fact of the external issue source.
BirthAuthor == [b \in Births |-> IF b = "y" THEN "alice" ELSE "nat"]

\* walletAddress.slice(2, 8): the address without its 0x.
Slice2To8(w) ==
  CASE w = "0xa" -> "a"
    [] w = "0xb" -> "b"
    [] w = "0xc" -> "c"
    [] OTHER -> "dead"

ToLowerCase(w) ==
  CASE w = "0xA" -> "0xa"
    [] w = "0xB" -> "0xb"
    [] OTHER -> w

ClaimMaxAge == 3600
SignInMaxAge == 3900
RoundAges == {ClaimMaxAge, ClaimMaxAge + 1, SignInMaxAge, SignInMaxAge + 1}

(***************************************************************************)
(* Record store (PocketBase collections).  A collection is the set of its *)
(* rows; a row's generated id is an opaque handle of the row, so a row is *)
(* named here by the row itself.                                           *)
(***************************************************************************)
\* getList(1, perPage, {filter}).items: of the rows that match the filter,
\* one page.
GetList(rows, perPage) ==
  IF Cardinality(rows) <= perPage THEN rows
  ELSE CHOOSE page \in SUBSET rows : Cardinality(page) = perPage

\* items[0]
First(rows) == CHOOSE r \in rows : TRUE

\* update(id, fields) and create(fields)
Update(coll, row, new) == (coll \ {row}) \cup {new}
Create(coll, new) == coll \cup {new}

HumanRecord(wallet, github, display) ==
  [wallet_address |-> wallet, github_username |-> github, display_name |-> display]

OracleRecord(birth, owner, bot, verified) ==
  [birth_issue |-> birth, owner_wallet |-> owner, bot_wallet |-> bot,
   wallet_verified |-> verified, approved |-> TRUE]

\* A message and signature pair, as far as the handlers read it: the fields
\* parseSiweMessage finds, and `signer`, what recoverMessageAddress recovers
\* from this signature over this message (the signing key's address, Garbage
\* for a signature over other bytes, Malformed when recovery throws).
Siwe(present, address, nonce, signer, expired, notYet) ==
  [present |-> present, address |-> address, nonce |-> nonce, signer |-> signer,
   expired |-> expired, notYet |-> notYet]

NoSiwe == Siwe(FALSE, None, None, Garbage, FALSE, FALSE)
SignedSiwe(address, signer) == Siwe(TRUE, address, "nonce", signer, FALSE, FALSE)

\* A proof-of-time reference and what the price oracle answers for it.
Round(kind, age) == [kind |-> kind, age |-> age]
NoRound == Round(None, 0)
RoundDown == Round(Unavailable, 0)
RoundOfAge(age) == Round("ok", age)

(***************************************************************************)
(* POST /verify-identity (claim)                                           *)
(***************************************************************************)
Response(status, error, H, O, token) ==
  [status |-> status, error |-> error, humans |-> H, oracles |-> O, token |-> token]

\* A variant whose subject is not the wallet.
HumanTokenOfNobody(wallet) == [sub |-> Garbage, type |-> "human"]

HumanToken(wallet) == [sub |-> wallet, type |-> "human"]

\* 6. Find or create human by wallet.
ClaimHumanUpsert(H, wallet, github) ==
  LET found == GetList({h \in H : h.wallet_address = wallet}, 1)
  IN IF found # {}
       THEN Update(H, First(found),
                   [First(found) EXCEPT !.github_username = github,
                                        !.display_name = github])
       ELSE Create(H, HumanRecord(wallet, github, github))

\* 7. Find or create oracle by birth issue, link to human via owner_wallet.
ClaimOracleUpsert(O, birth, wallet, bot) ==
  LET found == GetList({o \in O : o.birth_issue = birth}, 1)
      o == First(found)
  IN IF found # {}
       THEN Update(O, o,
              IF bot # None
                THEN [o EXCEPT !.owner_wallet = wallet, !.approved = TRUE,
                               !.bot_wallet = bot, !.wallet_verified = FALSE]
                ELSE [o EXCEPT !.owner_wallet = wallet, !.approved = TRUE])
       ELSE Create(O, OracleRecord(birth, wallet,
                                   IF bot # None THEN bot ELSE NoWallet, FALSE))

\* A variant without the duplicate check.
DuplicateBotWalletNever(O, bot, birth) == FALSE

\* A variant that does not set the claimed birth issue's own oracle apart.
DuplicateBotWalletAnyBirth(O, bot, birth) ==
  /\ bot # None
  /\ GetList({o \in O : o.bot_wallet = bot}, 10) # {}

\* Reject duplicate bot_wallet: an oracle with another birth issue has it.
DuplicateBotWallet(O, bot, birth) ==
  /\ bot # None
  /\ \E o \in GetList({o \in O : o.bot_wallet = bot}, 10) : o.birth_issue # birth

\* 8. SIWE proof of the claim wallet: "yes", "no", or "throw" when
\* recoverMessageAddress throws.
SiweProof(siwe, wallet) ==
  IF ~siwe.present THEN "no"
  ELSE IF siwe.address = None \/ siwe.nonce = None THEN "no"
  ELSE IF siwe.signer = Malformed THEN "throw"
  ELSE IF ToLowerCase(siwe.signer) = wallet THEN "yes" ELSE "no"

\* A variant without the guard.
IsBotWalletNever(O, wallet) == FALSE

\* Bot wallet guard: the wallet is registered as some oracle's bot_wallet.
IsBotWallet(O, wallet) == GetList({o \in O : o.bot_wallet = wallet}, 1) # {}

\* A variant whose list of humans is not filtered by username.
ReClaimAnyUsername(H, O, wallet, github) ==
  IF IsBotWallet(O, wallet)
    THEN O
    ELSE LET oldWallets == {h.wallet_address : h \in H} \ {wallet, ""}
             oldOracles == GetList({o \in O : o.owner_wallet \in oldWallets}, 200)
         IN (O \ oldOracles) \cup {[o EXCEPT !.owner_wallet = wallet] : o \in oldOracles}

\* Re-claim: transfer the oracles of the username's other wallets.
ReClaim(H, O, wallet, github) ==
  IF IsBotWallet(O, wallet)
    THEN O
    ELSE LET allHumans == GetList({h \in H : h.github_username = github}, 200)
             oldWallets == {h.wallet_address : h \in allHumans} \ {wallet, ""}
             oldOracles == GetList({o \in O : o.owner_wallet \in oldWallets}, 200)
         IN (O \ oldOracles) \cup {[o EXCEPT !.owner_wallet = wallet] : o \in oldOracles}

\* A variant that trusts the claim wallet alone for the transfer.
ReClaimUnproven(proof, github) == github # None

\* Whether step 8 runs the re-claim: the SIWE proof and a username.
ReClaimTriggered(proof, github) == proof = "yes" /\ github # None

ClaimRequest(url, author, wallet, birth, bot, sig, round, siwe) ==
  [url |-> url, author |-> author, wallet |-> wallet, birth |-> birth,
   bot |-> bot, sig |-> sig, round |-> round, siwe |-> siwe]

\* A variant that accepts any pair of authors.
AuthorsMatchAlways(verifyAuthor, birthAuthor) == TRUE

\* 5. Verify GitHub usernames match.
AuthorsMatch(verifyAuthor, birthAuthor) == verifyAuthor = birthAuthor

\* A variant that fetches both issues and matches their authors first.
ClaimChecksAuthorsFirst(req, O) ==
  LET walletAddress == ToLowerCase(req.wallet)
      botWallet == IF req.bot = None THEN None ELSE ToLowerCase(req.bot)
  IN IF req.url = "missing" THEN <<400, "MissingField">>
     ELSE IF req.url = "invalid" THEN <<400, "InvalidUrl">>
     ELSE IF req.url = "unfetchable" THEN <<400, "VerificationIssueUnavailable">>
     ELSE IF req.birth = "badurl" THEN <<400, "InvalidBirthUrl">>
     ELSE IF req.birth = "unfetchable" THEN <<400, "BirthIssueUnavailable">>
     ELSE IF req.birth # None /\ ~AuthorsMatch(req.author, BirthAuthor[req.birth])
       THEN <<401, "AuthorMismatch">>
     ELSE IF req.wallet = None THEN <<400, "MissingWallet">>
     ELSE IF req.birth = None THEN <<400, "MissingBirthIssue">>
     ELSE IF req.sig = Malformed THEN <<400, "InvalidEmbeddedSignature">>
     ELSE IF req.sig # None /\ ToLowerCase(req.sig) # walletAddress
       THEN <<401, "EmbeddedSignatureMismatch">>
     ELSE IF req.round.kind = None THEN <<400, "MissingRound">>
     ELSE IF req.round.kind = Unavailable THEN <<500, "VerificationFailed">>
     ELSE IF req.round.age > ClaimMaxAge THEN <<401, "NonceExpired">>
     ELSE IF DuplicateBotWallet(O, botWallet, req.birth)
       THEN <<400, "DuplicateBotWallet">>
     ELSE <<200, "ok">>

\* A variant that checks the round only when the issue carries one.
ClaimChecksOptionalRound(req, O) ==
  LET walletAddress == ToLowerCase(req.wallet)
      botWallet == IF req.bot = None THEN None ELSE ToLowerCase(req.bot)
  IN IF req.url = "missing" THEN <<400, "MissingField">>
     ELSE IF req.url = "invalid" THEN <<400, "InvalidUrl">>
     ELSE IF req.url = "unfetchable" THEN <<400, "VerificationIssueUnavailable">>
     ELSE IF req.wallet = None THEN <<400, "MissingWallet">>
     ELSE IF req.birth = None THEN <<400, "MissingBirthIssue">>
     ELSE IF req.sig = Malformed THEN <<400, "InvalidEmbeddedSignature">>
     ELSE IF req.sig # None /\ ToLowerCase(req.sig) # walletAddress
       THEN <<401, "EmbeddedSignatureMismatch">>
     ELSE IF req.round.kind = Unavailable THEN <<500, "VerificationFailed">>
     ELSE IF req.round.kind # None /\ req.round.age > ClaimMaxAge
       THEN <<401, "NonceExpired">>
     ELSE IF req.birth = "badurl" THEN <<400, "InvalidBirthUrl">>
     ELSE IF req.birth = "unfetchable" THEN <<400, "BirthIssueUnavailable">>
     ELSE IF ~AuthorsMatch(req.author, BirthAuthor[req.birth])
       THEN <<401, "AuthorMismatch">>
     ELSE IF DuplicateBotWallet(O, botWallet, req.birth)
       THEN <<400, "DuplicateBotWallet">>
     ELSE <<200, "ok">>

\* Steps 1 to 5 and the duplicate bot_wallet check: the first check that
\* fails, as <<status, error>>, or <<200, "ok">>.  None of them writes.
ClaimChecks(req, O) ==
  LET walletAddress == ToLowerCase(req.wallet)
      botWallet == IF req.bot = None THEN None ELSE ToLowerCase(req.bot)
  IN IF req.url = "missing" THEN <<400, "MissingField">>
     ELSE IF req.url = "invalid" THEN <<400, "InvalidUrl">>
     ELSE IF req.url = "unfetchable" THEN <<400, "VerificationIssueUnavailable">>
     ELSE IF req.wallet = None THEN <<400, "MissingWallet">>
     ELSE IF req.birth = None THEN <<400, "MissingBirthIssue">>
     ELSE IF req.sig = Malformed THEN <<400, "InvalidEmbeddedSignature">>
     ELSE IF req.sig # None /\ ToLowerCase(req.sig) # walletAddress
       THEN <<401, "EmbeddedSignatureMismatch">>
     ELSE IF req.round.kind = None THEN <<400, "MissingRound">>
     ELSE IF req.round.kind = Unavailable THEN <<500, "VerificationFailed">>
     ELSE IF req.round.age > ClaimMaxAge THEN <<401, "NonceExpired">>
     ELSE IF req.birth = "badurl" THEN <<400, "InvalidBirthUrl">>
     ELSE IF req.birth = "unfetchable" THEN <<400, "BirthIssueUnavailable">>
     ELSE IF ~AuthorsMatch(req.author, BirthAuthor[req.birth])
       THEN <<401, "AuthorMismatch">>
     ELSE IF DuplicateBotWallet(O, botWallet, req.birth)
       THEN <<400, "DuplicateBotWallet">>
     ELSE <<200, "ok">>

\* The handler: the response, with the store as the request leaves it.
VerifyIdentity(req, H, O) ==
  LET walletAddress == ToLowerCase(req.wallet)
      botWallet == IF req.bot = None THEN None ELSE ToLowerCase(req.bot)
      check == ClaimChecks(req, O)
  IN IF check[1] # 200 THEN Response(check[1], check[2], H, O, None)
     ELSE
       LET H1 == ClaimHumanUpsert(H, walletAddress, req.author)
           O1 == ClaimOracleUpsert(O, req.birth, walletAddress, botWallet)
           proof == SiweProof(req.siwe, walletAddress)
       IN IF proof = "throw" THEN Response(500, "VerificationFailed", H1, O1, None)
          ELSE LET O2 == IF ReClaimTriggered(proof, req.author)
                           THEN ReClaim(H1, O1, walletAddress, req.author)
                           ELSE O1
               IN Response(200, "ok", H1, O2, HumanToken(walletAddress))

\* Requests: every combination of the fields the writes depend on, ...
BaseClaims ==
  {ClaimRequest("ok", a, w, b, bot, None, RoundOfAge(ClaimMaxAge), siwe) :
     a \in Users, w \in Wallets, b \in Births, bot \in Wallets \cup {None},
     siwe \in {NoSiwe} \cup {SignedSiwe(k, k) : k \in Wallets}}

\* ... and, on a few of them, each way a step can fail or differ.
PlainClaims ==
  {r \in BaseClaims : /\ r.wallet \in {"0xa", "0xb"}
                      /\ r.bot = IF r.wallet = "0xa" THEN None ELSE "0xc"
                      /\ r.siwe = NoSiwe}

VariedClaims ==
  UNION {
    {[r EXCEPT !.url = u] : u \in {"missing", "invalid", "unfetchable"}}
    \cup {[r EXCEPT !.wallet = None], [r EXCEPT !.wallet = "0xA", !.bot = "0xB"]}
    \cup {[r EXCEPT !.birth = v] : v \in {None, "badurl", "unfetchable"}}
    \cup {[r EXCEPT !.sig = v] : v \in {r.wallet, "0xA", "0xb", Garbage, Malformed}}
    \cup {[r EXCEPT !.round = v] :
            v \in {NoRound, RoundDown} \cup {RoundOfAge(n) : n \in RoundAges}}
    \cup {[r EXCEPT !.round = RoundOfAge(SignInMaxAge), !.sig = Garbage]}
    \cup {[r EXCEPT !.siwe = v] :
            v \in {SignedSiwe(r.wallet, Malformed), SignedSiwe(r.wallet, Garbage),
                   SignedSiwe("0xc", r.wallet),
                   Siwe(TRUE, r.wallet, None, r.wallet, FALSE, FALSE),
                   Siwe(TRUE, None, "nonce", r.wallet, FALSE, FALSE),
                   Siwe(TRUE, r.wallet, "nonce", r.wallet, TRUE, FALSE),
                   Siwe(TRUE, r.wallet, "nonce", r.wallet, FALSE, TRUE)}}
    : r \in PlainClaims}

ClaimRequests == BaseClaims \cup VariedClaims

(***************************************************************************)
(* POST /humans/verify (sign-in)                                           *)
(***************************************************************************)
SignInResponse(status, error, H, token, created) ==
  [status |-> status, error |-> error, humans |-> H, token |-> token,
   created |-> created]

SignInRequest(siwe, round) == [siwe |-> siwe, round |-> round]

HumansVerify(req, H, O) ==
  LET m == req.siwe
      walletAddress == ToLowerCase(m.signer)
      Reject(status, error) == SignInResponse(status, error, H, None, FALSE)
  IN IF ~m.present THEN Reject(400, "MissingField")
     ELSE IF m.address = None \/ m.nonce = None THEN Reject(400, "MalformedMessage")
     ELSE IF m.signer = Malformed THEN Reject(500, "VerificationFailed")
     ELSE IF ToLowerCase(m.signer) # ToLowerCase(m.address)
       THEN Reject(401, "InvalidSignature")
     ELSE IF req.round.kind # "ok" THEN Reject(500, "VerificationFailed")
     ELSE IF req.round.age > SignInMaxAge THEN Reject(401, "NonceExpired")
     ELSE IF IsBotWallet(O, walletAddress) THEN Reject(403, "WalletRoleConflict")
     ELSE LET found == GetList({h \in H : h.wallet_address = walletAddress}, 1)
          IN IF found # {}
               THEN SignInResponse(200, "ok", H, HumanToken(walletAddress), FALSE)
               ELSE SignInResponse(200, "ok",
                      Create(H, HumanRecord(walletAddress, None, "Human-" \o Slice2To8(walletAddress))),
                      HumanToken(walletAddress), TRUE)

SignInSiwes ==
  {NoSiwe} \cup {SignedSiwe(a, k) : a \in Wallets, k \in Wallets}
    \cup {SignedSiwe("0xA", "0xa"), SignedSiwe("0xa", Garbage), SignedSiwe("0xa", Malformed),
          Siwe(TRUE, None, "nonce", "0xa", FALSE, FALSE),
          Siwe(TRUE, "0xa", None, "0xa", FALSE, FALSE)}

SignInRequests ==
  {SignInRequest(m, RoundOfAge(n)) : m \in SignInSiwes, n \in {ClaimMaxAge, SignInMaxAge + 1}}
    \cup {SignInRequest(SignedSiwe("0xa", "0xa"), v) :
            v \in {RoundDown} \cup {RoundOfAge(n) : n \in RoundAges}}

(***************************************************************************)
(* PATCH /api/oracles/:id/wallet (bot wallet assignment)                   *)
(***************************************************************************)
\* verifySIWE: the recovered wallet, or None for null.
VerifySIWE(m) ==
  IF m.address = None \/ m.nonce = None THEN None
  ELSE IF m.expired THEN None
  ELSE IF m.notYet THEN None
  ELSE IF m.signer = Malformed THEN None
  ELSE IF ToLowerCase(m.signer) # ToLowerCase(m.address) THEN None
  ELSE ToLowerCase(m.signer)

\* The :id of the request names an oracle row; a row keeps its birth issue
\* for life, so the row a request names is told by its birth issue.
AssignRequest(id, wallet, siwe) == [id |-> id, wallet_address |-> wallet, siwe |-> siwe]

AssignResponse(status, error, O) == [status |-> status, error |-> error, oracles |-> O]

OraclesWallet(req, O) ==
  LET verified == VerifySIWE(req.siwe)
      fetched == {o \in O : o.birth_issue = req.id}
      oracle == First(fetched)
  IN IF req.wallet_address = None \/ ~req.siwe.present
       THEN AssignResponse(400, "MissingField", O)
     ELSE IF verified = None THEN AssignResponse(401, "InvalidSignature", O)
     ELSE IF fetched = {} THEN AssignResponse(404, "OracleNotFound", O)
     ELSE IF oracle.owner_wallet # verified THEN AssignResponse(403, "NotOwner", O)
     ELSE AssignResponse(200, "ok",
            Update(O, oracle,
                   [oracle EXCEPT !.bot_wallet = ToLowerCase(req.wallet_address),
                                  !.wallet_verified = FALSE]))

AssignRequests ==
  {AssignRequest(id, w, SignedSiwe(k, k)) : id \in Births, w \in Wallets, k \in Wallets}
    \cup {AssignRequest("x", w, NoSiwe) : w \in {None, "0xB"}}
    \cup {AssignRequest("x", "0xB", m) :
            m \in {SignedSiwe("0xA", "0xa"), SignedSiwe("0xa", "0xb"),
                   SignedSiwe("0xa", Malformed),
                   Siwe(TRUE, "0xa", "nonce", "0xa", TRUE, FALSE),
                   Siwe(TRUE, "0xa", "nonce", "0xa", FALSE, TRUE),
                   Siwe(TRUE, None, "nonce", "0xa", FALSE, FALSE)}}

(***************************************************************************)
(* Session token codec (lib/auth.ts)                                       *)
(***************************************************************************)
MsPerSecond == 1000
TokenLifetime == 86400 * 7

Secrets == {"salt", "other"}

\* A claims map: sub and type, and an iat or exp of its own if it has one.
\* `wide` tells a map with a character outside Latin-1 in it.
Claims(sub, hasIat, iat, hasExp, exp, wide) ==
  [sub |-> sub, type |-> "human", hasIat |-> hasIat, iat |-> iat,
   hasExp |-> hasExp, exp |-> exp, wide |-> wide]

\* A token segment: what the text is (the URL-safe base64 of a JSON text,
\* of a MAC, of other bytes; not base64 at all; empty) and what it encodes.
Segment(kind, val) == [kind |-> kind, val |-> val]
Nothing == [nothing |-> TRUE]
EmptySegment == Segment("empty", Nothing)
JunkSegment == Segment("bytes", Nothing)
NotBase64 == Segment("notbase64", Nothing)

\* encode(obj): btoa(JSON.stringify(obj)), made URL-safe and unpadded.
Encode(obj) == Segment("json", obj)

\* crypto.subtle.sign('HMAC', key, `${headerB64}.${payloadB64}`)
Hmac(secret, headerB64, payloadB64) ==
  [key |-> secret, header |-> headerB64, payload |-> payloadB64]

JwtHeader == [alg |-> "HS256", typ |-> "JWT"]

Thrown == <<>>   \* in place of a token: the call threw

\* A variant in which the caller's own iat and exp win over the injected ones.
CreateJWTKeepingOwn(payload, secret, now) ==
  LET headerB64 == Encode(JwtHeader)
      payloadB64 ==
        Encode([payload EXCEPT
                  !.hasIat = TRUE,
                  !.iat = IF payload.hasIat THEN payload.iat ELSE now \div MsPerSecond,
                  !.hasExp = TRUE,
                  !.exp = IF payload.hasExp THEN payload.exp
                          ELSE now \div MsPerSecond + TokenLifetime])
  IN IF payload.wide THEN Thrown
     ELSE <<headerB64, payloadB64, Segment("mac", Hmac(secret, headerB64, payloadB64))>>

\* createJWT(payload, secret) at Date.now() = now: the three segments.
\* btoa throws on a character outside Latin-1.
CreateJWT(payload, secret, now) ==
  LET headerB64 == Encode(JwtHeader)
      payloadB64 ==
        Encode([payload EXCEPT !.hasIat = TRUE, !.iat = now \div MsPerSecond,
                               !.hasExp = TRUE,
                               !.exp = now \div MsPerSecond + TokenLifetime])
  IN IF payload.wide THEN Thrown
     ELSE <<headerB64, payloadB64, Segment("mac", Hmac(secret, headerB64, payloadB64))>>

Null == [null |-> TRUE]

\* verifyJWT(token, secret) at Date.now() = now: the payload, or Null.
\* token.split('.') is destructured into its first three parts.
VerifyJWT(token, secret, now) ==
  IF Len(token) < 3 THEN Null
  ELSE IF EmptySegment \in {token[1], token[2], token[3]} THEN Null
  ELSE IF token[3].kind = "notbase64" THEN Null
  ELSE IF ~(token[3].kind = "mac" /\ token[3].val = Hmac(secret, token[1], token[2]))
    THEN Null
  ELSE IF token[2].kind # "json" THEN Null
  ELSE LET payload == token[2].val
       IN IF payload.hasExp /\ payload.exp # 0 /\ payload.exp < now \div MsPerSecond
            THEN Null
            ELSE payload

\* Bounds of the token runs: the clock moves in steps of TickMs, within
\* MaxTicks steps of zero and of one token lifetime later.
TickMs == 500
MaxTicks == 4
LifetimeMs == TokenLifetime * MsPerSecond

ClaimsMaps ==
  {Claims("0xa", FALSE, 0, FALSE, 0, FALSE),    \* what the handlers pass
   Claims("0xa", TRUE, 7, TRUE, 1, FALSE),      \* an iat and a past exp of its own
   Claims("0xb", FALSE, 0, TRUE, 2 * TokenLifetime, FALSE),  \* a later exp
   Claims("0xa", FALSE, 0, FALSE, 0, TRUE)}     \* a character outside Latin-1

\* Tokens no createJWT call made: signed by a holder of the secret.
ForgedPayloads ==
  {Encode(Claims("0xa", TRUE, 0, TRUE, 0, FALSE)),
   Encode(Claims("0xa", TRUE, 0, FALSE, 0, FALSE)),
   Encode(Claims("0xa", TRUE, 0, TRUE, 1, FALSE)),
   JunkSegment}

Forged(payloadB64, secret) ==
  <<Encode(JwtHeader), payloadB64,
    Segment("mac", Hmac(secret, Encode(JwtHeader), payloadB64))>>

\* What a bearer can make of a token without the secret.
Presented(token, how) ==
  CASE how = "as is" -> token
    [] how = "extra segment" -> Append(token, JunkSegment)
    [] how = "without signature" -> SubSeq(token, 1, 2)
    [] how = "empty signature" -> [token EXCEPT ![3] = EmptySegment]
    [] how = "other signature" -> [token EXCEPT ![3] = JunkSegment]
    [] how = "not base64" -> [token EXCEPT ![3] = NotBase64]
    [] how = "later exp" ->
         [token EXCEPT ![2] =
            IF token[2].kind = "json"
              THEN Encode([token[2].val EXCEPT !.exp = 4 * TokenLifetime])
              ELSE token[2]]

Hows == {"as is", "extra segment", "without signature", "empty signature",
         "other signature", "not base64", "later exp"}

NoJwt == [by |-> "nobody", token |-> Thrown, secret |-> "salt", at |-> 0]
NoVerdict == [done |-> FALSE, token |-> Thrown, secret |-> "salt", at |-> 0,
              result |-> Null]

(***************************************************************************)
(* The system: requests arrive one at a time, against an empty store.      *)
(***************************************************************************)
\* No post has been made yet.
NoFeed ==
  posts = {} /\ comments = {} /\ notifications = {} /\ votes = {} /\ agents = {}

Init ==
  /\ NoFeed
  /\ humans = {} /\ oracles = {}
  /\ clock = 0 /\ jwt = NoJwt /\ verdict = NoVerdict
  /\ proc = <<>> /\ faults = 0

Claim(req) ==
  LET out == VerifyIdentity(req, humans, oracles)
  IN humans' = out.humans /\ oracles' = out.oracles /\ UNCHANGED <<jwtVars, feedVars, runVars>>

SignIn(req) ==
  LET out == HumansVerify(req, humans, oracles)
  IN humans' = out.humans /\ UNCHANGED oracles /\ UNCHANGED <<jwtVars, feedVars, runVars>>

AssignWallet(req) ==
  LET out == OraclesWallet(req, oracles)
  IN oracles' = out.oracles /\ UNCHANGED humans /\ UNCHANGED <<jwtVars, feedVars, runVars>>

Next ==
  \/ \E req \in ClaimRequests : Claim(req)
  \/ \E req \in SignInRequests : SignIn(req)
  \/ \E req \in AssignRequests : AssignWallet(req)

Spec == Init /\ [][Next]_vars

(***************************************************************************)
(* The token codec on its own: tokens are issued and forged, time passes,  *)
(* tokens are presented for verification.                                  *)
(***************************************************************************)
InWindow(t) == t <= MaxTicks * TickMs \/ (t >= LifetimeMs /\ t <= LifetimeMs + MaxTicks * TickMs)

Tick(d) ==
  /\ InWindow(clock + d)
  /\ clock' = clock + d
  /\ UNCHANGED <<jwt, verdict, humans, oracles, runVars, feedVars>>

Issue(claims, secret) ==
  /\ jwt' = [by |-> "createJWT", token |-> CreateJWT(claims, secret, clock),
             secret |-> secret, at |-> clock]
  /\ verdict' = NoVerdict
  /\ UNCHANGED <<clock, humans, oracles, runVars, feedVars>>

Forge(payloadB64, secret) ==
  /\ jwt' = [by |-> "forger", token |-> Forged(payloadB64, secret),
             secret |-> secret, at |-> clock]
  /\ verdict' = NoVerdict
  /\ UNCHANGED <<clock, humans, oracles, runVars, feedVars>>

Verify(how, secret) ==
  /\ jwt.token # Thrown
  /\ verdict' = [done |-> TRUE, token |-> Presented(jwt.token, how), secret |-> secret,
                 at |-> clock,
                 result |-> VerifyJWT(Presented(jwt.token, how), secret, clock)]
  /\ UNCHANGED <<clock, jwt, humans, oracles, runVars, feedVars>>

JwtNext ==
  \/ \E d \in {TickMs, LifetimeMs} : Tick(d)
  \/ \E claims \in ClaimsMaps : \E secret \in Secrets : Issue(claims, secret)
  \/ \E payloadB64 \in ForgedPayloads : \E secret \in Secrets : Forge(payloadB64, secret)
  \/ \E how \in Hows : \E secret \in Secrets : Verify(how, secret)

SpecJwt == Init /\ [][JwtNext]_vars

(***************************************************************************)
(* The handlers step by step.  Every call to the record store is a step of *)
(* its own: invocations interleave between their calls, and a call can     *)
(* fail.  The store keeps wallet_address unique among the humans and       *)
(* birth_issue unique among the oracles, so a row is told by that key.     *)
(***************************************************************************)
Invocation(kind, call) ==
  [kind |-> kind, call |-> call, pc |-> "start",
   human |-> {}, oracle |-> {}, oldWallets |-> {}, old |-> {}, moved |-> {},
   retried |-> FALSE, status |-> 0, error |-> "running"]

Goto(p, label) == proc' = [proc EXCEPT ![p].pc = label]

Return(p, status, error) ==
  proc' = [proc EXCEPT ![p].pc = "done", ![p].status = status, ![p].error = error]

At(p, kind, label) == proc[p].kind = kind /\ proc[p].pc = label

\* The wallet an invocation acts for.
WalletOf(p) ==
  IF proc[p].kind = "signin" THEN ToLowerCase(proc[p].call.siwe.signer)
  ELSE ToLowerCase(proc[p].call.wallet)

\* What create() throws when the unique field's value is taken.
NotUnique == "validation_not_unique"

\* A variant that takes no create error for a uniqueness conflict.
IsUniqueConflictNever(createErr) == FALSE

\* The sign-in handler's test of a create error.
IsUniqueConflict(createErr) == createErr = NotUnique

\* POST /humans/verify: the checks that read no store.
SignInStart(p) ==
  /\ At(p, "signin", "start")
  /\ LET pre == HumansVerify(proc[p].call, {}, {})
     IN IF pre.status # 200 THEN Return(p, pre.status, pre.error)
        ELSE Goto(p, "guard")
  /\ UNCHANGED <<storeVars, jwtVars, feedVars, faults>>

SignInGuard(p) ==
  /\ At(p, "signin", "guard")
  /\ IF IsBotWallet(oracles, WalletOf(p)) THEN Return(p, 403, "WalletRoleConflict")
     ELSE Goto(p, "search")
  /\ UNCHANGED <<storeVars, jwtVars, feedVars, faults>>

SignInSearch(p) ==
  /\ At(p, "signin", "search")
  /\ LET found == GetList({h \in humans : h.wallet_address = WalletOf(p)}, 1)
     IN IF found # {}
          THEN proc' = [proc EXCEPT ![p].human = found, ![p].pc = "done",
                                    ![p].status = 200, ![p].error = "ok"]
          ELSE Goto(p, "create")
  /\ UNCHANGED <<storeVars, jwtVars, feedVars, faults>>

SignInCreate(p) ==
  /\ At(p, "signin", "create")
  /\ LET new == HumanRecord(WalletOf(p), None, "Human-" \o Slice2To8(WalletOf(p)))
     IN IF \E h \in humans : h.wallet_address = WalletOf(p)
          THEN /\ IF IsUniqueConflict(NotUnique) THEN Goto(p, "retry")
                  ELSE Return(p, 500, "CreateFailed")
               /\ UNCHANGED humans
          ELSE /\ humans' = Create(humans, new)
               /\ proc' = [proc EXCEPT ![p].human = {new}, ![p].pc = "done",
                                       ![p].status = 200, ![p].error = "ok"]
  /\ UNCHANGED <<oracles, jwtVars, feedVars, faults>>

SignInRetry(p) ==
  /\ At(p, "signin", "retry")
  /\ LET found == GetList({h \in humans : h.wallet_address = WalletOf(p)}, 1)
     IN IF found # {}
          THEN proc' = [proc EXCEPT ![p].human = found, ![p].pc = "done",
                                    ![p].status = 200, ![p].error = "ok"]
          ELSE Return(p, 500, "FindOrCreateFailed")
  /\ UNCHANGED <<storeVars, jwtVars, feedVars, faults>>

\* POST /verify-identity: steps 1 to 5 and the duplicate bot_wallet check.
ClaimStart(p) ==
  /\ At(p, "claim", "start")
  /\ LET check == ClaimChecks(proc[p].call, oracles)
     IN IF check[1] # 200 THEN Return(p, check[1], check[2])
        ELSE Goto(p, "humanSearch")
  /\ UNCHANGED <<storeVars, jwtVars, feedVars, faults>>

ClaimHumanSearch(p) ==
  /\ At(p, "claim", "humanSearch")
  /\ proc' = [proc EXCEPT
       ![p].human = GetList({h \in humans : h.wallet_address = WalletOf(p)}, 1),
       ![p].pc = "humanWrite"]
  /\ UNCHANGED <<storeVars, jwtVars, feedVars, faults>>

\* update(id) of the row found, or create(); a create that meets a row with
\* the wallet throws, and the handler's only catch is the outer one.
ClaimHumanWrite(p) ==
  /\ At(p, "claim", "humanWrite")
  /\ IF proc[p].human = {} /\ \E h \in humans : h.wallet_address = WalletOf(p)
       THEN Return(p, 500, "VerificationFailed") /\ UNCHANGED humans
       ELSE /\ humans' = ClaimHumanUpsert(humans, WalletOf(p), proc[p].call.author)
            /\ Goto(p, "oracleSearch")
  /\ UNCHANGED <<oracles, jwtVars, feedVars, faults>>

ClaimOracleSearch(p) ==
  /\ At(p, "claim", "oracleSearch")
  /\ proc' = [proc EXCEPT
       ![p].oracle = GetList({o \in oracles : o.birth_issue = proc[p].call.birth}, 1),
       ![p].pc = "oracleWrite"]
  /\ UNCHANGED <<storeVars, jwtVars, feedVars, faults>>

\* The oracle write, then the SIWE proof, which reads no store.
ClaimOracleWrite(p) ==
  /\ At(p, "claim", "oracleWrite")
  /\ LET call == proc[p].call
         botWallet == IF call.bot = None THEN None ELSE ToLowerCase(call.bot)
         proof == SiweProof(call.siwe, WalletOf(p))
     IN IF proc[p].oracle = {} /\ \E o \in oracles : o.birth_issue = call.birth
          THEN Return(p, 500, "VerificationFailed") /\ UNCHANGED oracles
          ELSE /\ oracles' = ClaimOracleUpsert(oracles, call.birth, WalletOf(p), botWallet)
               /\ IF proof = "throw" THEN Return(p, 500, "VerificationFailed")
                  ELSE IF ReClaimTriggered(proof, call.author) THEN Goto(p, "guard")
                  ELSE Return(p, 200, "ok")
  /\ UNCHANGED <<humans, jwtVars, feedVars, faults>>

ClaimGuard(p) ==
  /\ At(p, "claim", "guard")
  /\ IF IsBotWallet(oracles, WalletOf(p)) THEN Return(p, 200, "ok")
     ELSE Goto(p, "listHumans")
  /\ UNCHANGED <<storeVars, jwtVars, feedVars, faults>>

\* A variant that lists the username's humans only for a human just created.
ClaimListHumansNewOnly(p) ==
  /\ At(p, "claim", "listHumans")
  /\ LET allHumans ==
           GetList({h \in humans : h.github_username = proc[p].call.author}, 200)
         oldWallets == {h.wallet_address : h \in allHumans} \ {WalletOf(p), ""}
     IN IF oldWallets = {} \/ proc[p].human # {} THEN Return(p, 200, "ok")
        ELSE proc' = [proc EXCEPT ![p].oldWallets = oldWallets, ![p].pc = "listOracles"]
  /\ UNCHANGED <<storeVars, jwtVars, feedVars, faults>>

ClaimListHumans(p) ==
  /\ At(p, "claim", "listHumans")
  /\ LET allHumans ==
           GetList({h \in humans : h.github_username = proc[p].call.author}, 200)
         oldWallets == {h.wallet_address : h \in allHumans} \ {WalletOf(p), ""}
     IN IF oldWallets = {} THEN Return(p, 200, "ok")
        ELSE proc' = [proc EXCEPT ![p].oldWallets = oldWallets, ![p].pc = "listOracles"]
  /\ UNCHANGED <<storeVars, jwtVars, feedVars, faults>>

\* oldOraclesData.items, held by the key of each row.
ClaimListOracles(p) ==
  /\ At(p, "claim", "listOracles")
  /\ LET oldOracles ==
           GetList({o \in oracles : o.owner_wallet \in proc[p].oldWallets}, 200)
     IN IF oldOracles = {} THEN Return(p, 200, "ok")
        ELSE proc' = [proc EXCEPT ![p].old = {o.birth_issue : o \in oldOracles},
                                  ![p].pc = "transfer"]
  /\ UNCHANGED <<storeVars, jwtVars, feedVars, faults>>

\* One turn of the loop: update(o.id, {owner_wallet}).  `moved` is how far
\* the loop has come.
ClaimTransfer(p) ==
  /\ At(p, "claim", "transfer")
  /\ \E birth \in proc[p].old \ proc[p].moved :
       /\ oracles' = {IF o.birth_issue = birth
                        THEN [o EXCEPT !.owner_wallet = WalletOf(p)] ELSE o :
                      o \in oracles}
       /\ IF proc[p].moved \cup {birth} = proc[p].old
            THEN proc' = [proc EXCEPT ![p].moved = proc[p].old, ![p].pc = "done",
                                      ![p].status = 200, ![p].error = "ok"]
            ELSE proc' = [proc EXCEPT ![p].moved = proc[p].moved \cup {birth}]
  /\ UNCHANGED <<humans, jwtVars, feedVars, faults>>

(***************************************************************************)
(* Two invocations at once, against an empty store.                        *)
(***************************************************************************)
Procs == {1, 2}

\* Valid requests: sign-ins, and claims without a sign-in message.
RaceCalls ==
  {Invocation("signin",
              ClaimRequest("ok", None, w, None, None, None,
                           RoundOfAge(ClaimMaxAge), SignedSiwe(w, w))) :
     w \in {"0xa", "0xb"}}
  \cup
  {Invocation("claim",
              ClaimRequest("ok", BirthAuthor[b], w, b, None, None,
                           RoundOfAge(ClaimMaxAge), NoSiwe)) :
     w \in {"0xa", "0xb"}, b \in Births}

InitRace ==
  /\ NoFeed
  /\ humans = {} /\ oracles = {}
  /\ clock = 0 /\ jwt = NoJwt /\ verdict = NoVerdict
  /\ proc \in [Procs -> RaceCalls] /\ faults = 0

RaceNext ==
  \E p \in Procs :
    \/ SignInStart(p)
    \/ SignInGuard(p)
    \/ SignInSearch(p)
    \/ SignInCreate(p)
    \/ SignInRetry(p)
    \/ ClaimStart(p)
    \/ ClaimHumanSearch(p)
    \/ ClaimHumanWrite(p)
    \/ ClaimOracleSearch(p)
    \/ ClaimOracleWrite(p)

SpecRace == InitRace /\ [][RaceNext]_vars

(***************************************************************************)
(* One claim with a sign-in proof, against a record store whose calls can  *)
(* fail, retried by its caller.                                            *)
(***************************************************************************)
MaxFaults == 2

\* The labels at which the claim handler is about to call the store.
StoreCalls == {"start", "humanSearch", "humanWrite", "oracleSearch", "oracleWrite",
               "guard", "listHumans", "listOracles", "transfer"}

\* A store call throws: the handler's outer catch answers 500.
Throw(p) ==
  /\ proc[p].kind = "claim" /\ proc[p].pc \in StoreCalls
  /\ faults > 0 /\ faults' = faults - 1
  /\ Return(p, 500, "VerificationFailed")
  /\ UNCHANGED <<storeVars, jwtVars, feedVars>>

\* The caller sends the same request again, now or after the round named in
\* the verification issue has grown older.
Retry(p) ==
  /\ proc[p].pc = "done" /\ proc[p].status # 200
  /\ \E age \in {proc[p].call.round.age, proc[p].call.round.age + 1} :
       /\ age <= ClaimMaxAge + 1
       /\ proc' = [proc EXCEPT
            ![p] = [Invocation("claim", [proc[p].call EXCEPT !.round = RoundOfAge(age)])
                      EXCEPT !.retried = TRUE]]
  /\ UNCHANGED <<storeVars, jwtVars, feedVars, faults>>

\* nat has signed in from 0xa and from 0xc before; the oracles y and z are
\* owned by those wallets, x by one of them or by nobody yet.
RetryHumans ==
  {{HumanRecord("0xa", "nat", "nat"), HumanRecord("0xc", u, u)} : u \in Users}

RetryOracles ==
  {{OracleRecord("y", oy, NoWallet, FALSE), OracleRecord("z", oz, bz, FALSE)} \cup X :
     oy \in {"0xa", "0xc"}, oz \in {"0xa", "0xc"}, bz \in {NoWallet, "0xb"},
     X \in {{}, {OracleRecord("x", "0xa", NoWallet, FALSE)}}}

RetryCalls ==
  {Invocation("claim",
              ClaimRequest("ok", "nat", "0xb", "x", None, None,
                           RoundOfAge(ClaimMaxAge), siwe)) :
     siwe \in {SignedSiwe("0xb", "0xb"), NoSiwe}}

InitRetry ==
  /\ NoFeed
  /\ humans \in RetryHumans /\ oracles \in RetryOracles
  /\ clock = 0 /\ jwt = NoJwt /\ verdict = NoVerdict
  /\ proc \in [{1} -> RetryCalls] /\ faults \in 0..MaxFaults

ClaimStep(p) ==
  \/ ClaimStart(p)
  \/ ClaimHumanSearch(p)
  \/ ClaimHumanWrite(p)
  \/ ClaimOracleSearch(p)
  \/ ClaimOracleWrite(p)
  \/ ClaimGuard(p)
  \/ ClaimListHumans(p)
  \/ ClaimListOracles(p)
  \/ ClaimTransfer(p)

RetryNext ==
  \/ ClaimStep(1)
  \/ Throw(1)
  \/ Retry(1)

SpecRetry == InitRetry /\ [][RetryNext]_vars

\* The handler runs on, and the caller does retry.
SpecRetryFair == SpecRetry /\ WF_vars(ClaimStep(1)) /\ WF_vars(Retry(1))

(***************************************************************************)
(* Family Merkle roots (lib/merkle, routes/merkle).                        *)
(***************************************************************************)
\* Birth issues of two repositories; r1 and r2 both have an issue 1.
MerkleBirths == {"r1/issues/1", "r2/issues/1", "r1/issues/2", "r1/issues/0", "r1/pull/3"}

Number(found, n) == [found |-> found, n |-> n]

\* birthIssue.match(/\/issues\/(\d+)/), parseInt of the digits; null without
\* a match.
ExtractIssueNumber(birthIssue) ==
  CASE birthIssue = "r1/issues/1" -> Number(TRUE, 1)
    [] birthIssue = "r2/issues/1" -> Number(TRUE, 1)
    [] birthIssue = "r1/issues/2" -> Number(TRUE, 2)
    [] birthIssue = "r1/issues/0" -> Number(TRUE, 0)
    [] OTHER -> Number(FALSE, 0)

\* Where the name of each birth issue's oracle stands in the store's sort by
\* name: the two issues 1 are both named "Oracle".
NameRank ==
  [b \in MerkleBirths |->
     CASE b = "r1/issues/2" -> 1
       [] b = "r1/issues/1" -> 2
       [] b = "r2/issues/1" -> 2
       [] OTHER -> 3]

\* Where the hash of a leaf stands among the hashes; it has nothing to do
\* with the issue number.
HashRank ==
  [b \in MerkleBirths |->
     CASE b = "r1/issues/2" -> 1
       [] b = "r2/issues/1" -> 2
       [] b = "r1/issues/1" -> 3
       [] OTHER -> 4]

Perms(S) ==
  {f \in [1..Cardinality(S) -> S] : \A x \in S : \E i \in 1..Cardinality(S) : f[i] = x}

\* getList(1, 200, {filter: owner_wallet = w, sort: 'name'}).items: the rows
\* by name, rows of one name in any order.
OwnerItems(O, w) ==
  {items \in Perms({o \in O : o.owner_wallet = w}) :
     \A i \in DOMAIN items : \A j \in DOMAIN items :
       i < j => NameRank[items[i].birth_issue] <= NameRank[items[j].birth_issue]}

Assignment(bot, oracle, issue) == [bot |-> bot, oracle |-> oracle, issue |-> issue]

\* Array.prototype.sort((a, b) => a.issue - b.issue): stable.
RECURSIVE SortByIssue(_)
SortByIssue(as) ==
  IF as = <<>> THEN <<>>
  ELSE LET least == CHOOSE i \in DOMAIN as :
                      /\ \A j \in DOMAIN as : as[i].issue <= as[j].issue
                      /\ \A j \in 1..(i - 1) : as[j].issue # as[i].issue
       IN <<as[least]>> \o
          SortByIssue(SubSeq(as, 1, least - 1) \o SubSeq(as, least + 1, Len(as)))

\* oraclesToAssignments(oracles): filter, map, filter, sort.
OraclesToAssignments(items) ==
  LET kept == SelectSeq(items, LAMBDA o : o.bot_wallet # NoWallet /\ o.birth_issue # "")
      mapped == [i \in DOMAIN kept |->
                   LET n == ExtractIssueNumber(kept[i].birth_issue)
                   IN Assignment(kept[i].bot_wallet, kept[i].birth_issue,
                                 IF n.found THEN n.n ELSE 0)]
  IN SortByIssue(SelectSeq(mapped, LAMBDA a : a.issue > 0))

ToLeafTuple(a) == <<ToLowerCase(a.bot), a.oracle, a.issue>>

\* The leaves by their hashes, least first.
RECURSIVE SortByHash(_)
SortByHash(leaves) ==
  IF leaves = <<>> THEN <<>>
  ELSE LET least == CHOOSE i \in DOMAIN leaves :
                      /\ \A j \in DOMAIN leaves :
                           HashRank[leaves[i][2]] <= HashRank[leaves[j][2]]
                      /\ \A j \in 1..(i - 1) :
                           HashRank[leaves[j][2]] # HashRank[leaves[i][2]]
       IN <<leaves[least]>> \o
          SortByHash(SubSeq(leaves, 1, least - 1) \o SubSeq(leaves, least + 1, Len(leaves)))

\* A variant built with sortLeaves off.
BuildMerkleTreeUnsorted(assignments) ==
  LET leaves == [i \in DOMAIN assignments |-> ToLeafTuple(assignments[i])]
  IN [values |-> leaves, root |-> [tree |-> leaves]]

\* StandardMerkleTree.of(leaves, LEAF_ENCODING): the values as given, and a
\* root that is a collision-free function of the leaves sorted by hash.
BuildMerkleTree(assignments) ==
  LET leaves == [i \in DOMAIN assignments |-> ToLeafTuple(assignments[i])]
  IN [values |-> leaves, root |-> [tree |-> SortByHash(leaves)]]

EmptyRoot == [tree |-> <<>>]   \* ''

GetMerkleRoot(assignments) ==
  IF Len(assignments) = 0 THEN EmptyRoot ELSE BuildMerkleTree(assignments).root

\* getOwnerMerkle(wallet), the store returning the owner's rows as `items`.
GetOwnerMerkle(items) ==
  LET assignments == OraclesToAssignments(items)
  IN [assignments |-> assignments, root |-> GetMerkleRoot(assignments)]

NoLeaf == <<NoWallet, "", 0>>

MerkleResponse(status, error, root, leaves, leaf, index) ==
  [status |-> status, error |-> error, root |-> root, leaves |-> leaves,
   leaf |-> leaf, leaf_index |-> index]

\* GET /api/merkle/owner/:wallet
MerkleOwner(items) ==
  LET m == GetOwnerMerkle(items)
  IN MerkleResponse(200, "ok", m.root, m.assignments, NoLeaf, 0)

\* A variant that answers with the first leaf of the tree.
MerkleProofFirstLeaf(issueNum, items) ==
  LET assignments == GetOwnerMerkle(items).assignments
      tree == BuildMerkleTree(assignments)
  IN IF issueNum <= 0 THEN MerkleResponse(400, "InvalidIssue", EmptyRoot, <<>>, NoLeaf, 0)
     ELSE IF Len(assignments) = 0
       THEN MerkleResponse(404, "NoOracles", EmptyRoot, <<>>, NoLeaf, 0)
     ELSE MerkleResponse(200, "ok", tree.root, <<>>, tree.values[1], 0)

\* GET /api/merkle/proof/:wallet/:issue; leaf_index counts from 0.
MerkleProof(issueNum, items) ==
  LET assignments == GetOwnerMerkle(items).assignments
      tree == BuildMerkleTree(assignments)
      hits == {i \in DOMAIN tree.values :
                 LET leafIssue == ExtractIssueNumber(tree.values[i][2])
                 IN leafIssue.found /\ leafIssue.n = issueNum}
      first == CHOOSE i \in hits : \A j \in hits : i <= j
  IN IF issueNum <= 0 THEN MerkleResponse(400, "InvalidIssue", EmptyRoot, <<>>, NoLeaf, 0)
     ELSE IF Len(assignments) = 0
       THEN MerkleResponse(404, "NoOracles", EmptyRoot, <<>>, NoLeaf, 0)
     ELSE IF ~\E i \in DOMAIN assignments : assignments[i].issue = issueNum
       THEN MerkleResponse(404, "LeafNotFound", EmptyRoot, <<>>, NoLeaf, 0)
     ELSE IF hits = {}
       THEN MerkleResponse(404, "LeafNotFound", EmptyRoot, <<>>, NoLeaf, 0)
     ELSE MerkleResponse(200, "ok", tree.root, <<>>, tree.values[first], first - 1)

\* The bot wallet each birth issue's oracle was claimed with, if any.
MerkleBot ==
  [b \in MerkleBirths |->
     CASE b = "r1/issues/1" -> "0xb"
       [] b = "r2/issues/1" -> "0xc"
       [] b = "r1/issues/2" -> "0xa"
       [] OTHER -> "0xc"]

MerkleStores ==
  {O \in SUBSET ({OracleRecord(b, w, MerkleBot[b], FALSE) :
                    b \in MerkleBirths, w \in {"0xa", "0xb"}}
                  \cup {OracleRecord("r1/issues/2", "0xa", NoWallet, FALSE)}) :
     /\ Cardinality(O) <= 4
     /\ \A o1 \in O : \A o2 \in O : o1.birth_issue = o2.birth_issue => o1 = o2}

MerkleWallets == {"0xa", "0xA", "0xb"}
MerkleIssues == {0, 1, 2, 3}

InitMerkle ==
  /\ NoFeed
  /\ humans = {} /\ oracles \in MerkleStores
  /\ clock = 0 /\ jwt = NoJwt /\ verdict = NoVerdict
  /\ proc = <<>> /\ faults = 0

FamilyRoot(wallet) ==
  /\ \E items \in OwnerItems(oracles, ToLowerCase(wallet)) :
       proc' = <<[kind |-> "owner", wallet |-> wallet, issue |-> 0,
                  response |-> MerkleOwner(items)]>>
  /\ UNCHANGED <<storeVars, jwtVars, feedVars, faults>>

FamilyProof(wallet, issueNum) ==
  /\ \E items \in OwnerItems(oracles, ToLowerCase(wallet)) :
       proc' = <<[kind |-> "proof", wallet |-> wallet, issue |-> issueNum,
                  response |-> MerkleProof(issueNum, items)]>>
  /\ UNCHANGED <<storeVars, jwtVars, feedVars, faults>>

MerkleNext ==
  \/ \E wallet \in MerkleWallets : FamilyRoot(wallet)
  \/ \E wallet \in MerkleWallets : \E issueNum \in MerkleIssues :
       FamilyProof(wallet, issueNum)

SpecMerkle == InitMerkle /\ [][MerkleNext]_vars

(***************************************************************************)
(* Posts, comments, mentions and the notification inbox.                   *)
(***************************************************************************)
MaxPosts == 1
MaxComments == 1
MaxNotifications == 2

NoBirth == ""   \* oracle_birth_issue of a human's post
NoId == 0       \* post_id / comment_id of a notification without one

PostRecord(id, author, birth) ==
  [id |-> id, author_wallet |-> author, oracle_birth_issue |-> birth,
   upvotes |-> 0, downvotes |-> 0, score |-> 0]

CommentRecord(id, post, author) == [id |-> id, post |-> post, author_wallet |-> author]

NotificationRecord(id, recipient, actor, type, post, comment) ==
  [id |-> id, recipient_wallet |-> recipient, actor_wallet |-> actor, type |-> type,
   post_id |-> post, comment_id |-> comment, read |-> FALSE]

\* The keys that sign posts, comments and mentions.
Signers == Wallets \cup {Malformed}

\* POST /api/posts: the signer is the author; an oracle's post must be signed
\* by the oracle's bot wallet.
PostsCreate(birth, signer) ==
  LET authorWallet == ToLowerCase(signer)
      found == GetList({o \in oracles : o.birth_issue = birth}, 1)
      refused == \/ signer = Malformed
                 \/ /\ birth # NoBirth
                    /\ found = {} \/ First(found).bot_wallet # authorWallet
  IN /\ Cardinality(posts) < MaxPosts
     /\ posts' = IF refused THEN posts
                 ELSE Create(posts, PostRecord(Cardinality(posts) + 1, authorWallet, birth))
     /\ UNCHANGED <<storeVars, jwtVars, runVars, comments, notifications, votes, agents>>

\* resolvePostOwnerWallet: an oracle's post notifies the oracle's owner, a
\* human's post its author.
ResolvePostOwnerWallet(post, O) ==
  LET found == GetList({o \in O : o.birth_issue = post.oracle_birth_issue}, 1)
  IN IF post.oracle_birth_issue # NoBirth /\ found # {}
          /\ First(found).owner_wallet # NoWallet
       THEN ToLowerCase(First(found).owner_wallet)
       ELSE ToLowerCase(post.author_wallet)

\* A variant without self-suppression.
CreateNotificationAlways(N, O, recipient, actor, type, post, comment) ==
  Create(N, NotificationRecord(Cardinality(N) + 1, recipient, actor, type, post, comment))

\* createNotification: the notifications after the call.
CreateNotification(N, O, recipient, actor, type, post, comment) ==
  IF ToLowerCase(recipient) = ToLowerCase(actor) THEN N
  ELSE Create(N, NotificationRecord(Cardinality(N) + 1, recipient, actor, type,
                                    post, comment))

\* POST /api/posts/:id/comments with a content signature: create the comment,
\* then notify the post's owner.
PostsComment(postId, signer) ==
  LET authorWallet == ToLowerCase(signer)
      post == CHOOSE p \in posts : p.id = postId
      commentId == Cardinality(comments) + 1
  IN /\ \E p \in posts : p.id = postId
     /\ Cardinality(comments) < MaxComments
     /\ Cardinality(notifications) < MaxNotifications
     /\ IF signer = Malformed
          THEN UNCHANGED <<comments, notifications>>
          ELSE /\ comments' = Create(comments, CommentRecord(commentId, postId, authorWallet))
               /\ notifications' =
                    CreateNotification(notifications, oracles,
                                       ResolvePostOwnerWallet(post, oracles),
                                       authorWallet, "comment", postId, commentId)
     /\ UNCHANGED <<storeVars, jwtVars, runVars, posts, votes, agents>>

\* The text of a mention and the rows whose name it matches (name ~ text);
\* a row's name is told here by its birth issue, and "oracle" is a text that
\* every name contains.
MentionTexts == Births \cup {"oracle"}
NameMatches(o, text) == text = "oracle" \/ o.birth_issue = text

\* POST /api/mentions: notify the owner and the bot of the oracle named,
\* each once, the signer never.
MentionsPost(text, signer) ==
  LET signerWallet == ToLowerCase(signer)
      found == {o \in oracles : NameMatches(o, text)}
  IN /\ Cardinality(notifications) + 2 <= MaxNotifications
     /\ IF signer = Malformed \/ found = {}
          THEN UNCHANGED notifications
          ELSE \E targetOracle \in found :
                 LET ownerWallet == ToLowerCase(targetOracle.owner_wallet)
                     botWallet == ToLowerCase(targetOracle.bot_wallet)
                     toOwner == ownerWallet # NoWallet /\ ownerWallet # signerWallet
                     toBot == /\ botWallet # NoWallet /\ botWallet # signerWallet
                              /\ botWallet # ownerWallet
                     first == IF toOwner
                                THEN CreateNotification(notifications, oracles, ownerWallet,
                                                        signerWallet, "mention", NoId, NoId)
                                ELSE notifications
                 IN notifications' =
                      IF toBot
                        THEN CreateNotification(first, oracles, botWallet, signerWallet,
                                                "mention", NoId, NoId)
                        ELSE first
     /\ UNCHANGED <<storeVars, jwtVars, runVars, posts, comments, votes, agents>>

\* An actor descriptor; `ref` is the oracle's birth issue or the human's
\* github username.
Actor(type, name, ref) == [type |-> type, name |-> name, ref |-> ref]
NoActor == Actor("absent", None, None)

\* o.name: the model tells an oracle's name by its birth issue.
OracleName(o) == o.birth_issue

\* h.github_username || h.display_name || 'Human'
HumanName(h) ==
  IF h.github_username # None THEN h.github_username
  ELSE IF h.display_name # None THEN h.display_name
  ELSE "Human"

EnrichPage == 200

\* What the resolver can put in its map for one wallet, humans looked up
\* before oracles.
ActorChoicesHumanFirst(w, actorWallets, H, O) ==
  LET humanRows == GetList({h \in H : h.wallet_address \in actorWallets}, EnrichPage)
      ofWallet == {h \in humanRows : ToLowerCase(h.wallet_address) = ToLowerCase(w)}
      oracleRows == GetList({o \in O : o.bot_wallet \in actorWallets}, EnrichPage)
      ofBot == {o \in oracleRows : o.bot_wallet # NoWallet
                                   /\ ToLowerCase(o.bot_wallet) = ToLowerCase(w)}
  IN IF ofWallet # {}
       THEN {Actor("human", HumanName(h), h.github_username) : h \in ofWallet}
     ELSE IF ofBot # {}
       THEN {Actor("oracle", OracleName(o), o.birth_issue) : o \in ofBot}
     ELSE {NoActor}

\* What enrichActors can put in its map for one of the wallets: an oracle
\* with this bot wallet (of several, the last the store lists), else the
\* human with this wallet, else nothing.
ActorChoices(w, actorWallets, H, O) ==
  LET oracleRows == GetList({o \in O : o.bot_wallet \in actorWallets}, EnrichPage)
      ofBot == {o \in oracleRows : o.bot_wallet # NoWallet
                                   /\ ToLowerCase(o.bot_wallet) = ToLowerCase(w)}
      remaining == {v \in actorWallets :
                      \A o \in oracleRows :
                        o.bot_wallet = NoWallet
                        \/ ToLowerCase(o.bot_wallet) # ToLowerCase(v)}
      humanRows == GetList({h \in H : h.wallet_address \in remaining}, EnrichPage)
      ofWallet == {h \in humanRows : ToLowerCase(h.wallet_address) = ToLowerCase(w)}
  IN IF ofBot # {}
       THEN {Actor("oracle", OracleName(o), o.birth_issue) : o \in ofBot}
     ELSE IF ofWallet # {}
       THEN {Actor("human", HumanName(h), h.github_username) : h \in ofWallet}
     ELSE {NoActor}

\* enrichActors: the maps it can return.
EnrichActors(actorWallets, H, O) ==
  {actorMap \in [actorWallets -> UNION {ActorChoices(w, actorWallets, H, O) :
                                          w \in actorWallets}] :
     \A w \in actorWallets : actorMap[w] \in ActorChoices(w, actorWallets, H, O)}

\* actorMap.get(wallet) || the unknown actor named from the wallet's prefix
ActorOf(actorMap, wallet) ==
  IF actorMap[wallet] # NoActor THEN actorMap[wallet]
  ELSE Actor("unknown", "User-" \o Slice2To8(wallet), None)

\* GET /api/notifications: the caller's notifications, each with its actor.
NotificationsList(wallet) ==
  LET items == {n \in notifications : n.recipient_wallet = wallet}
      actorWallets == {n.actor_wallet : n \in items}
  IN /\ \E actorMap \in EnrichActors(actorWallets, humans, oracles) :
          proc' = <<[kind |-> "inbox", wallet |-> wallet,
                     items |-> {[n |-> n, actor |-> ActorOf(actorMap, n.actor_wallet)] :
                                  n \in items}]>>
     /\ UNCHANGED <<storeVars, jwtVars, feedVars, faults>>

\* The stores the feed runs against: 0xa owns the oracles, 0xb and 0xc are
\* bot wallets, and 0xb may have signed in as a human before it became one.
NotifyHumans ==
  {{HumanRecord("0xa", "nat", "nat")},
   {HumanRecord("0xa", "nat", "nat"), HumanRecord("0xb", None, "Human-b")}}

NotifyOracles ==
  {{OracleRecord("x", "0xa", "0xb", FALSE)},
   {OracleRecord("x", "0xa", NoWallet, FALSE)},
   {OracleRecord("x", "0xa", "0xb", FALSE), OracleRecord("y", "0xa", "0xb", FALSE)},
   {OracleRecord("x", "0xa", "0xb", FALSE), OracleRecord("y", "0xb", "0xc", TRUE)}}

InitNotify ==
  /\ NoFeed
  /\ humans \in NotifyHumans /\ oracles \in NotifyOracles
  /\ clock = 0 /\ jwt = NoJwt /\ verdict = NoVerdict
  /\ proc = <<>> /\ faults = 0

NotifyNext ==
  \/ \E birth \in Births \cup {NoBirth} : \E signer \in Signers : PostsCreate(birth, signer)
  \/ \E postId \in 1..MaxPosts : \E signer \in Signers : PostsComment(postId, signer)
  \/ \E text \in MentionTexts : \E signer \in Signers : MentionsPost(text, signer)
  \/ \E wallet \in Wallets : NotificationsList(wallet)

SpecNotify == InitNotify /\ [][NotifyNext]_vars

(***************************************************************************)
(* POST /api/posts/:id/vote, one store call at a time.  Each of two         *)
(* callers sends vote after vote on post 1.                                 *)
(***************************************************************************)
MaxVoteRequests == 2

VotedPost == 1
Up == 1
Down == -1

VoteRecord(id, wallet, target, value) ==
  [id |-> id, voter_wallet |-> wallet, target_id |-> target, value |-> value]

VoteCall(wallet, newValue, sent) ==
  [kind |-> "vote", wallet |-> wallet, newValue |-> newValue, pc |-> "idle",
   upvotes |-> 0, downvotes |-> 0, existing |-> {}, sent |-> sent, status |-> 0]

Max0(a) == IF a < 0 THEN 0 ELSE a

\* The id the store gives a new vote row: one no row has and no caller holds.
FreshVoteId ==
  LET used == {v.id : v \in votes} \cup
              UNION {{v.id : v \in proc[p].existing} : p \in DOMAIN proc}
  IN CHOOSE id \in 1..(Cardinality(used) + 1) : id \notin used

\* The caller's wallet from its token, and the post with its counts.
VoteStart(p, wallet, newValue) ==
  /\ proc[p].pc \in {"idle", "done"}
  /\ proc[p].sent < MaxVoteRequests
  /\ \E post \in {q \in posts : q.id = VotedPost} :
       proc' = [proc EXCEPT ![p] =
                  [VoteCall(wallet, newValue, proc[p].sent + 1) EXCEPT
                     !.pc = "lookup", !.upvotes = post.upvotes,
                     !.downvotes = post.downvotes]]
  /\ UNCHANGED <<storeVars, jwtVars, feedVars, faults>>

\* Check existing vote.
VoteLookup(p) ==
  /\ proc[p].pc = "lookup"
  /\ proc' = [proc EXCEPT ![p].pc = "write",
                          ![p].existing =
                             GetList({v \in votes : v.voter_wallet = proc[p].wallet
                                                    /\ v.target_id = VotedPost}, 1)]
  /\ UNCHANGED <<storeVars, jwtVars, feedVars, faults>>

\* No vote: create; same direction: delete; other direction: update.  The
\* store refuses a second row for one wallet and target, and a delete or an
\* update of a row that is gone; the handler does not catch that.
VoteWrite(p) ==
  LET c == proc[p]
      up == c.newValue = Up
      Threw == proc' = [proc EXCEPT ![p].pc = "done", ![p].status = 500]
      Counted(u, d) == proc' = [proc EXCEPT ![p].pc = "post", ![p].upvotes = u,
                                            ![p].downvotes = d]
  IN /\ c.pc = "write"
     /\ IF c.existing = {}
          THEN IF \E v \in votes : v.voter_wallet = c.wallet /\ v.target_id = VotedPost
                 THEN Threw /\ UNCHANGED votes
                 ELSE /\ votes' = Create(votes, VoteRecord(FreshVoteId, c.wallet,
                                                           VotedPost, c.newValue))
                      /\ Counted(IF up THEN c.upvotes + 1 ELSE c.upvotes,
                                 IF up THEN c.downvotes ELSE c.downvotes + 1)
          ELSE LET existing == First(c.existing)
                   stored == {v \in votes : v.id = existing.id}
               IN IF stored = {} THEN Threw /\ UNCHANGED votes
                  ELSE IF existing.value = c.newValue
                    THEN /\ votes' = votes \ stored
                         /\ Counted(IF up THEN Max0(c.upvotes - 1) ELSE c.upvotes,
                                    IF up THEN c.downvotes ELSE Max0(c.downvotes - 1))
                    ELSE /\ votes' = Update(votes, First(stored),
                                            [First(stored) EXCEPT !.value = c.newValue])
                         /\ Counted(IF up THEN c.upvotes + 1 ELSE Max0(c.upvotes - 1),
                                    IF up THEN Max0(c.downvotes - 1) ELSE c.downvotes + 1)
     /\ UNCHANGED <<storeVars, jwtVars, faults, posts, comments, notifications, agents>>

\* Update post counts.
VotePost(p) ==
  /\ proc[p].pc = "post"
  /\ \E post \in {q \in posts : q.id = VotedPost} :
       posts' = Update(posts, post,
                       [post EXCEPT !.upvotes = proc[p].upvotes,
                                    !.downvotes = proc[p].downvotes,
                                    !.score = proc[p].upvotes - proc[p].downvotes])
  /\ proc' = [proc EXCEPT ![p].pc = "done", ![p].status = 200]
  /\ UNCHANGED <<storeVars, jwtVars, faults, comments, notifications, votes, agents>>

Voters == {"0xa", "0xb"}

InitVote ==
  /\ humans = {} /\ oracles = {}
  /\ clock = 0 /\ jwt = NoJwt /\ verdict = NoVerdict
  /\ posts = {PostRecord(VotedPost, "0xa", NoBirth)}
  /\ comments = {} /\ notifications = {} /\ votes = {} /\ agents = {}
  /\ proc = [p \in Procs |-> VoteCall(None, Up, 0)] /\ faults = 0

VoteNext ==
  \/ \E p \in Procs : \E wallet \in Voters : \E newValue \in {Up, Down} :
       VoteStart(p, wallet, newValue)
  \/ \E p \in Procs : VoteLookup(p)
  \/ \E p \in Procs : VoteWrite(p)
  \/ \E p \in Procs : VotePost(p)

SpecVote == InitVote /\ [][VoteNext]_vars

(***************************************************************************)
(* Round-distance sign-in: the variants of the two sign-in handlers that   *)
(* take the message's nonce for a price-feed round id and compare it with  *)
(* the latest round, and the agent sign-in's cross-check that marks an     *)
(* oracle's bot wallet verified.  Each store call of the agent handler is  *)
(* a step, so that other requests can run between its calls.               *)
(***************************************************************************)
MaxRoundDistance == 10
LatestRound == 12

AgentRecord(wallet, display) == [wallet_address |-> wallet, display_name |-> display]

\* getChainlinkBtcPrice(): the latest round, or a throw.
Latest(kind, id) == [kind |-> kind, roundId |-> id]

RoundSignIn(siwe, nonce, latest) == [siwe |-> siwe, nonce |-> nonce, latest |-> latest]

\* The mirror-image test, which refuses only a nonce from the future.
RoundTooOldReversed(currentRound, nonce) == nonce - currentRound > MaxRoundDistance

\* `currentRoundBigInt - nonceBigInt > 10n` on unbounded integers.
RoundTooOld(currentRound, nonce) == currentRound - nonce > MaxRoundDistance

\* Every check of a round-distance sign-in that comes before the first store
\* call, in the order of the code, as <<status, error>>.
RoundChecks(req) ==
  LET m == req.siwe
  IN IF ~m.present THEN <<400, "MissingField">>
     ELSE IF m.address = None \/ m.nonce = None THEN <<400, "MalformedMessage">>
     ELSE IF m.signer = Malformed THEN <<500, "VerificationFailed">>
     ELSE IF ToLowerCase(m.signer) # ToLowerCase(m.address)
       THEN <<401, "InvalidSignature">>
     ELSE IF req.latest.kind # "ok" THEN <<500, "VerificationFailed">>
     ELSE IF RoundTooOld(req.latest.roundId, req.nonce) THEN <<401, "NonceExpired">>
     ELSE <<200, "ok">>

\* POST /humans/verify, round-distance variant: find or create the human of
\* the recovered wallet.
HumansVerifyByRound(req, H) ==
  LET pre == RoundChecks(req)
      walletAddress == ToLowerCase(req.siwe.signer)
      found == GetList({h \in H : h.wallet_address = walletAddress}, 1)
  IN IF pre[1] # 200 THEN SignInResponse(pre[1], pre[2], H, None, FALSE)
     ELSE IF found # {}
       THEN SignInResponse(200, "ok", H, HumanToken(walletAddress), FALSE)
     ELSE SignInResponse(200, "ok",
            Create(H, HumanRecord(walletAddress, None, "Human-" \o Slice2To8(walletAddress))),
            HumanToken(walletAddress), TRUE)

SignInByRound(req) ==
  LET out == HumansVerifyByRound(req, humans)
  IN humans' = out.humans /\ UNCHANGED oracles /\ UNCHANGED <<jwtVars, feedVars, runVars>>

\* Oracles.byBotWallet(addr): the first oracle whose bot_wallet is addr.
OraclesByBotWallet(O, addr) == GetList({o \in O : o.bot_wallet = addr}, 1)

AgentWallet(p) == ToLowerCase(proc[p].call.siwe.signer)

AgentStart(p) ==
  /\ At(p, "agent", "start")
  /\ LET pre == RoundChecks(proc[p].call)
     IN IF pre[1] # 200 THEN Return(p, pre[1], pre[2]) ELSE Goto(p, "search")
  /\ UNCHANGED <<storeVars, jwtVars, feedVars, faults>>

AgentSearch(p) ==
  /\ At(p, "agent", "search")
  /\ IF GetList({a \in agents : a.wallet_address = AgentWallet(p)}, 1) # {}
       THEN Goto(p, "oracle") ELSE Goto(p, "create")
  /\ UNCHANGED <<storeVars, jwtVars, feedVars, faults>>

AgentCreate(p) ==
  /\ At(p, "agent", "create")
  /\ IF \E a \in agents : a.wallet_address = AgentWallet(p)
       THEN /\ IF IsUniqueConflict(NotUnique) THEN Goto(p, "retry")
               ELSE Return(p, 500, "CreateFailed")
            /\ UNCHANGED agents
       ELSE /\ agents' = Create(agents,
                           AgentRecord(AgentWallet(p), "Agent-" \o Slice2To8(AgentWallet(p))))
            /\ Goto(p, "oracle")
  /\ UNCHANGED <<storeVars, jwtVars, faults, posts, comments, notifications, votes>>

AgentRetry(p) ==
  /\ At(p, "agent", "retry")
  /\ IF GetList({a \in agents : a.wallet_address = AgentWallet(p)}, 1) # {}
       THEN Goto(p, "oracle") ELSE Return(p, 500, "CreateFailed")
  /\ UNCHANGED <<storeVars, jwtVars, feedVars, faults>>

\* The lookup of the oracle this wallet is the bot wallet of; the row read
\* is what the handler decides on.
AgentOracle(p) ==
  /\ At(p, "agent", "oracle")
  /\ LET items == OraclesByBotWallet(oracles, AgentWallet(p))
     IN IF items = {} \/ First(items).wallet_verified
          THEN proc' = [proc EXCEPT ![p].oracle = items, ![p].pc = "done",
                                    ![p].status = 200, ![p].error = "ok"]
          ELSE proc' = [proc EXCEPT ![p].oracle = items, ![p].pc = "verify"]
  /\ UNCHANGED <<storeVars, jwtVars, feedVars, faults>>

\* PATCH {wallet_verified: true} on the record with the id that was read,
\* whatever its other fields now are.
AgentVerify(p) ==
  /\ At(p, "agent", "verify")
  /\ LET id == First(proc[p].oracle).birth_issue
     IN oracles' = {IF o.birth_issue = id THEN [o EXCEPT !.wallet_verified = TRUE] ELSE o :
                      o \in oracles}
  /\ Return(p, 200, "ok")
  /\ UNCHANGED <<humans, jwtVars, feedVars, faults>>

Nonces == {1, 2, 11, 12, 13}

RoundSignIns ==
  {RoundSignIn(SignedSiwe(w, w), n, Latest("ok", LatestRound)) :
     w \in {"0xb", "0xc"}, n \in Nonces}
    \cup {RoundSignIn(m, LatestRound, Latest("ok", LatestRound)) :
            m \in {NoSiwe, SignedSiwe("0xb", "0xc"), SignedSiwe("0xb", Malformed),
                   Siwe(TRUE, None, "nonce", "0xb", FALSE, FALSE)}}
    \cup {RoundSignIn(SignedSiwe("0xb", "0xb"), LatestRound, Latest(Unavailable, 0))}

AgentAssigns == {AssignRequest("x", w, SignedSiwe("0xa", "0xa")) : w \in {"0xb", "0xc"}}

AgentClaims ==
  {ClaimRequest("ok", "nat", "0xa", "x", b, None, RoundOfAge(ClaimMaxAge), NoSiwe) :
     b \in {None, "0xc"}}

InitAgent ==
  /\ humans = {HumanRecord("0xa", "nat", "nat")}
  /\ oracles = {OracleRecord("x", "0xa", "0xb", FALSE)}
  /\ clock = 0 /\ jwt = None /\ verdict = None /\ faults = 0
  /\ NoFeed
  /\ proc \in [Procs -> {Invocation("agent", c) : c \in RoundSignIns}]

AgentNext ==
  \/ \E p \in Procs : AgentStart(p)
  \/ \E p \in Procs : AgentSearch(p)
  \/ \E p \in Procs : AgentCreate(p)
  \/ \E p \in Procs : AgentRetry(p)
  \/ \E p \in Procs : AgentOracle(p)
  \/ \E p \in Procs : AgentVerify(p)
  \/ \E req \in AgentAssigns : AssignWallet(req)
  \/ \E req \in AgentClaims : Claim(req)
  \/ \E req \in RoundSignIns : SignInByRound(req)

SpecAgent == InitAgent /\ [][AgentNext]_vars

(***************************************************************************)
(* Properties.  A handler is a function of the request and the store, so a *)
(* property of a request is stated of every request against the store of  *)
(* every reachable state.                                                  *)
(***************************************************************************)
\* The owner of the oracle with this birth issue in store O (a set, in case
\* there is none).
OwnersOf(O, birth) == {o.owner_wallet : o \in {q \in O : q.birth_issue = birth}}

\* Every oracle of store O still exists in P with the same owner.
SameOwner(O, P, birth) == OwnersOf(P, birth) = OwnersOf(O, birth)

\* The request carries a sign-in message whose signature recovers to the
\* wallet extracted from the verification issue.
SignerIsWallet(req) ==
  /\ req.siwe.present
  /\ req.wallet # None
  /\ ToLowerCase(req.siwe.signer) = ToLowerCase(req.wallet)

\* A valid sign-in proof: that, in a message that parses to an address and a
\* nonce.
ProvesWallet(req) ==
  SignerIsWallet(req) /\ req.siwe.address # None /\ req.siwe.nonce # None

\* A claim with nothing wrong before resolution, the bot wallet aside: both
\* issues fetched and by one author, a wallet, an embedded signature (if
\* any) by that wallet, a round that is present and fresh.
WellFormedClaim(req) ==
  /\ req.url = "ok"
  /\ req.wallet # None
  /\ req.birth \in Births
  /\ req.sig = None \/ ToLowerCase(req.sig) = ToLowerCase(req.wallet)
  /\ req.round.kind = "ok" /\ req.round.age <= ClaimMaxAge
  /\ req.author = BirthAuthor[req.birth]

NoDuplicateBot(req, O) ==
  req.bot = None \/
  \A o \in O : o.bot_wallet = ToLowerCase(req.bot) => o.birth_issue = req.birth

\* C1: a claim with a valid sign-in proof for wallet B, B being the bot
\* wallet of some BotIdentity, changes the owner of no BotIdentity (the one
\* the claim names included) and completes successfully.
C1_BotWalletClaimMovesNoOwner ==
  \A req \in ClaimRequests :
    LET out == VerifyIdentity(req, humans, oracles)
    IN (/\ WellFormedClaim(req) /\ NoDuplicateBot(req, oracles)
        /\ ProvesWallet(req)
        /\ \E o \in oracles : o.bot_wallet = ToLowerCase(req.wallet))
       => /\ out.status = 200
          /\ \A o \in oracles : SameOwner(oracles, out.oracles, o.birth_issue)

\* C2: a claim without a sign-in message, or with one signed by another key,
\* changes the owner of no BotIdentity but the one keyed by the claimed
\* birth issue.
C2_NoProofNoTransfer ==
  \A req \in ClaimRequests :
    LET out == VerifyIdentity(req, humans, oracles)
    IN ~SignerIsWallet(req)
       => \A o \in oracles :
            o.birth_issue # req.birth => SameOwner(oracles, out.oracles, o.birth_issue)

\* An oracle the re-claim would move: not the claimed one, owned by another
\* wallet of a human with the claim's username.
OldOracle(req, H, o) ==
  /\ o.birth_issue # req.birth
  /\ o.owner_wallet # ToLowerCase(req.wallet)
  /\ \E h \in H : h.wallet_address = o.owner_wallet /\ h.github_username = req.author

C2_Witness ==
  \E req \in ClaimRequests :
    /\ WellFormedClaim(req) /\ req.siwe.present /\ ~SignerIsWallet(req)
    /\ VerifyIdentity(req, humans, oracles).status = 200
    /\ \E o \in oracles : OldOracle(req, humans, o)

\* A successful re-claim for new wallet B: a valid sign-in proof, B no bot
\* wallet (of a stored BotIdentity, or by this very claim).
ReClaims(req, O) ==
  /\ WellFormedClaim(req) /\ NoDuplicateBot(req, O)
  /\ ProvesWallet(req)
  /\ \A o \in O : o.bot_wallet # ToLowerCase(req.wallet)
  /\ req.bot = None \/ ToLowerCase(req.bot) # ToLowerCase(req.wallet)

MovedToNew(req, H, O, out) ==
  \A o \in O :
    (/\ o.owner_wallet # ToLowerCase(req.wallet)
     /\ \E h \in H : h.wallet_address = o.owner_wallet /\ h.github_username = req.author)
    => OwnersOf(out.oracles, o.birth_issue) = {ToLowerCase(req.wallet)}

OtherUsername(req, H, o) ==
  \E h \in H : h.wallet_address = o.owner_wallet /\ h.github_username # req.author

\* C3, as claimed: after a successful re-claim every BotIdentity owned by
\* another wallet of the username is owned by B, and every BotIdentity owned
\* by a wallet of a human with a different username is unchanged.
C3_ReClaimAsClaimed ==
  \A req \in ClaimRequests :
    LET out == VerifyIdentity(req, humans, oracles)
    IN ReClaims(req, oracles)
       => /\ out.status = 200
          /\ MovedToNew(req, humans, oracles, out)
          /\ \A o \in oracles : OtherUsername(req, humans, o) => o \in out.oracles

\* C3, amended: ... and every BotIdentity other than the one the claim names
\* that is owned by a wallet of a human with a different username is
\* unchanged.
C3_ReClaim ==
  \A req \in ClaimRequests :
    LET out == VerifyIdentity(req, humans, oracles)
    IN ReClaims(req, oracles)
       => /\ out.status = 200
          /\ MovedToNew(req, humans, oracles, out)
          /\ \A o \in oracles :
               (OtherUsername(req, humans, o) /\ o.birth_issue # req.birth)
               => o \in out.oracles

\* A store with an oracle the re-claim moves and a claim that moves it.
C3_Witness ==
  \E req \in ClaimRequests :
    /\ ReClaims(req, oracles)
    /\ \E o \in oracles :
         /\ OldOracle(req, humans, o)
         /\ OwnersOf(VerifyIdentity(req, humans, oracles).oracles, o.birth_issue)
              = {ToLowerCase(req.wallet)}

\* A sign-in request for wallet W (the address of its message) while W is
\* the bot wallet of some BotIdentity.
SignInAsBot(req, O) ==
  /\ req.siwe.present /\ req.siwe.address # None
  /\ \E o \in O : o.bot_wallet = ToLowerCase(req.siwe.address)

\* C4, as claimed: such a sign-in is rejected with WalletRoleConflict whether
\* or not its signature is valid; no HumanAccount is created, no token issued.
C4_RoleConflictAsClaimed ==
  \A req \in SignInRequests :
    LET out == HumansVerify(req, humans, oracles)
    IN SignInAsBot(req, oracles)
       => out.error = "WalletRoleConflict" /\ out.humans = humans /\ out.token = None

\* C4, amended: such a sign-in is always rejected, creates no HumanAccount and
\* issues no token; the error is WalletRoleConflict when the message is well
\* formed, the signature is by W and the round is fresh, and the error of the
\* earlier failing check otherwise.
C4_RoleConflict ==
  \A req \in SignInRequests :
    LET out == HumansVerify(req, humans, oracles)
    IN SignInAsBot(req, oracles)
       => /\ out.status # 200 /\ out.humans = humans /\ out.token = None
          /\ (/\ req.siwe.nonce # None
              /\ ToLowerCase(req.siwe.signer) = ToLowerCase(req.siwe.address)
              /\ req.round.kind = "ok" /\ req.round.age <= SignInMaxAge)
             => out.status = 403 /\ out.error = "WalletRoleConflict"

\* A bot wallet is registered and its key signs in with a fresh round.
C4_Witness ==
  \E req \in SignInRequests :
    /\ SignInAsBot(req, oracles)
    /\ HumansVerify(req, humans, oracles).error = "WalletRoleConflict"
    /\ \A h \in humans : h.wallet_address # ToLowerCase(req.siwe.address)

\* C5: no wallet is at once the wallet of a HumanAccount and the bot wallet
\* of a BotIdentity.
C5_NoWalletInBothRoles ==
  \A h \in humans : \A o \in oracles : o.bot_wallet # h.wallet_address

\* C6: no two BotIdentities have the same bot wallet.
C6_BotWalletUnique ==
  \A o1 \in oracles : \A o2 \in oracles :
    (o1 # o2 /\ o1.bot_wallet # NoWallet) => o1.bot_wallet # o2.bot_wallet

\* A claim that names bot wallet W while another birth issue's BotIdentity
\* has W.
ClaimsTakenBot(req, O) ==
  /\ req.bot # None
  /\ \E o \in O : o.bot_wallet = ToLowerCase(req.bot) /\ o.birth_issue # req.birth

\* C7: a claim naming a bot wallet that a BotIdentity with a different birth
\* issue already has is rejected, with DuplicateBotWallet when nothing else
\* is wrong with it, and has written nothing.
C7_DuplicateBotWallet ==
  \A req \in ClaimRequests :
    LET out == VerifyIdentity(req, humans, oracles)
    IN ClaimsTakenBot(req, oracles)
       => /\ out.status # 200 /\ out.token = None
          /\ out.humans = humans /\ out.oracles = oracles
          /\ WellFormedClaim(req)
             => out.status = 400 /\ out.error = "DuplicateBotWallet"

C7_Witness ==
  \E req \in ClaimRequests :
    /\ ClaimsTakenBot(req, oracles) /\ WellFormedClaim(req)
    /\ VerifyIdentity(req, humans, oracles).error = "DuplicateBotWallet"
    /\ \A h \in humans : h.wallet_address # ToLowerCase(req.wallet)

\* A claim whose two issues were fetched and have different authors.
AuthorsDiffer(req) ==
  req.url = "ok" /\ req.birth \in Births /\ req.author # BirthAuthor[req.birth]

\* C8: a claim whose verification issue and birth issue have different
\* authors is rejected, with AuthorMismatch when nothing the handler checks
\* earlier is wrong with it; it has written nothing and issued no token.
C8_AuthorMismatch ==
  \A req \in ClaimRequests :
    LET out == VerifyIdentity(req, humans, oracles)
    IN AuthorsDiffer(req)
       => /\ out.status # 200 /\ out.token = None
          /\ out.humans = humans /\ out.oracles = oracles
          /\ (/\ req.wallet # None
              /\ req.sig = None \/ ToLowerCase(req.sig) = ToLowerCase(req.wallet)
              /\ req.round.kind = "ok" /\ req.round.age <= ClaimMaxAge)
             => out.status = 401 /\ out.error = "AuthorMismatch"

\* The birth issue's oracle exists, owned by another wallet, and a claim on
\* it by the wrong author proves its wallet.
C8_Witness ==
  \E req \in ClaimRequests :
    /\ AuthorsDiffer(req) /\ ProvesWallet(req)
    /\ VerifyIdentity(req, humans, oracles).error = "AuthorMismatch"
    /\ \E o \in oracles : o.birth_issue = req.birth
                          /\ o.owner_wallet # ToLowerCase(req.wallet)

\* The last verifyJWT call was given, under the secret it was issued with,
\* the token createJWT returned.
VerifiedIssued ==
  /\ verdict.done /\ jwt.by = "createJWT"
  /\ verdict.token = jwt.token /\ verdict.secret = jwt.secret

\* C9, as claimed: a token issued at time t verifies under the same secret at
\* every time t' with t <= t' <= t + 7 days, and verification returns null at
\* every time t' > t + 7 days.
C9_LifetimeAsClaimed ==
  VerifiedIssued
  => /\ verdict.at <= jwt.at + LifetimeMs => verdict.result # Null
     /\ verdict.at > jwt.at + LifetimeMs => verdict.result = Null

\* C9, amended: ... and verification returns null at every time t' whose
\* whole second is later than the whole second of t plus 7 days, so at every
\* t' >= t + 7 days + 1 second.
C9_Lifetime ==
  VerifiedIssued
  => /\ verdict.at <= jwt.at + LifetimeMs => verdict.result # Null
     /\ verdict.at \div MsPerSecond > jwt.at \div MsPerSecond + TokenLifetime
          => verdict.result = Null
     /\ verdict.at >= jwt.at + LifetimeMs + MsPerSecond => verdict.result = Null

\* A token made of claims with a past exp of their own, issued after time 0,
\* verifies exactly 7 days later.
C9_Witness ==
  /\ VerifiedIssued /\ jwt.at > 0
  /\ verdict.at = jwt.at + LifetimeMs
  /\ verdict.result # Null /\ verdict.result.iat # 7

\* C10: verifyJWT returns a claims map only if the token has exactly three
\* segments, its signature is the keyed hash of header.payload under the
\* secret given, its payload parses and its expiry is not in the past.
C10_VerifyOnlyIf ==
  (verdict.done /\ verdict.result # Null)
  => /\ Len(verdict.token) = 3
     /\ verdict.token[3] =
          Segment("mac", Hmac(verdict.secret, verdict.token[1], verdict.token[2]))
     /\ verdict.token[2].kind = "json"
     /\ ~(verdict.token[2].val.hasExp
          /\ verdict.token[2].val.exp < verdict.at \div MsPerSecond)

\* A sign-in with nothing wrong but, perhaps, the age of its round.
FineSignIn(req) ==
  /\ req.siwe.present /\ req.siwe.address # None /\ req.siwe.nonce # None
  /\ ToLowerCase(req.siwe.signer) = ToLowerCase(req.siwe.address)
  /\ req.round.kind = "ok"

\* A claim with nothing wrong before the freshness check but, perhaps, the
\* age of its round.
FineClaimUpToRound(req) ==
  /\ req.url = "ok" /\ req.wallet # None /\ req.birth # None
  /\ req.sig = None \/ ToLowerCase(req.sig) = ToLowerCase(req.wallet)
  /\ req.round.kind = "ok"

\* C11: sign-in and claim enforce one and the same freshness bound: a round
\* of a given age is rejected as expired (and no token issued) by both flows
\* or by neither.
C11_OneFreshnessBound ==
  \A s \in SignInRequests : \A c \in ClaimRequests :
    (FineSignIn(s) /\ FineClaimUpToRound(c) /\ s.round.age = c.round.age)
    => LET signIn == HumansVerify(s, humans, oracles)
           claim == VerifyIdentity(c, humans, oracles)
       IN /\ signIn.error = "NonceExpired" <=> claim.error = "NonceExpired"
          /\ signIn.error = "NonceExpired" => signIn.token = None
          /\ claim.error = "NonceExpired" => claim.token = None

BothDone == \A p \in Procs : proc[p].pc = "done"

HumansOf(wallet) == {h \in humans : h.wallet_address = wallet}

\* C12: two valid sign-ins for one wallet that had no HumanAccount, run at
\* once in any interleaving, both return success with the same HumanAccount,
\* and the store ends with exactly one HumanAccount for the wallet.
C12_ConcurrentSignIn ==
  (/\ \A p \in Procs : proc[p].kind = "signin"
   /\ WalletOf(1) = WalletOf(2)
   /\ BothDone)
  => /\ \A p \in Procs : proc[p].status = 200
     /\ proc[1].human = proc[2].human
     /\ proc[1].human = HumansOf(WalletOf(1))
     /\ Cardinality(HumansOf(WalletOf(1))) = 1

\* One sign-in has created the account and returned; the other, which had
\* found none, met the conflict and is about to read again.
C12_Witness ==
  /\ \A p \in Procs : proc[p].kind = "signin"
  /\ WalletOf(1) = WalletOf(2)
  /\ \E p \in Procs : \E q \in Procs :
       /\ proc[p].pc = "retry"
       /\ proc[q].pc = "done" /\ proc[q].status = 200
       /\ proc[q].human = HumansOf(WalletOf(p))

\* The two invocations create for the same new wallet or (two claims) for
\* the same new birth issue, and one of them is a claim.
RaceToCreate ==
  /\ \E p \in Procs : proc[p].kind = "claim"
  /\ \/ WalletOf(1) = WalletOf(2)
     \/ /\ \A p \in Procs : proc[p].kind = "claim"
        /\ proc[1].call.birth = proc[2].call.birth

\* C13: two claims, or a claim and a sign-in, that race to create the
\* HumanAccount of a wallet or the BotIdentity of a birth issue both complete
\* successfully, leaving one HumanAccount for the wallet and one BotIdentity
\* for the birth issue.
C13_ConcurrentClaim ==
  (RaceToCreate /\ BothDone)
  => /\ \A p \in Procs : proc[p].status = 200
     /\ \A p \in Procs : Cardinality(HumansOf(WalletOf(p))) = 1
     /\ \A p \in Procs :
          proc[p].kind = "claim"
          => Cardinality({o \in oracles : o.birth_issue = proc[p].call.birth}) = 1

\* C14: an identical successful claim, issued a second time with no other
\* request in between, succeeds again and leaves the store as the first left
\* it.
C14_ClaimIdempotent ==
  \A req \in ClaimRequests :
    LET first == VerifyIdentity(req, humans, oracles)
        second == VerifyIdentity(req, first.humans, first.oracles)
    IN first.status = 200
       => /\ second.status = 200
          /\ second.humans = first.humans
          /\ second.oracles = first.oracles

\* A claim that names a bot wallet, changes the human's username and moves
\* an oracle of an old wallet, and is then issued again.
C14_Witness ==
  \E req \in ClaimRequests :
    LET first == VerifyIdentity(req, humans, oracles)
    IN /\ first.status = 200 /\ req.bot # None
       /\ ReClaims(req, oracles)
       /\ \E o \in oracles : OldOracle(req, humans, o) /\ o \notin first.oracles
       /\ first.humans # humans
       /\ VerifyIdentity(req, first.humans, first.oracles).oracles = first.oracles

\* The re-claim loop of the invocation stopped between two records.
PartFailed(p) ==
  /\ proc[p].pc = "done" /\ proc[p].status # 200
  /\ proc[p].moved # {} /\ proc[p].moved # proc[p].old

\* C15: when a reassignment fails in the middle of the re-claim loop, every
\* BotIdentity reassigned before keeps the new owner, and the response says
\* that the transfer was partial: it is neither plain success nor the error
\* every other failure gets.
C15_PartialSurfaced ==
  \A p \in DOMAIN proc :
    PartFailed(p)
    => /\ \A o \in oracles :
            o.birth_issue \in proc[p].moved => o.owner_wallet = WalletOf(p)
       /\ proc[p].error \notin {"ok", "VerificationFailed"}

\* No oracle is owned by another wallet of the claim's username any more.
AllMoved(p) ==
  \A o \in oracles :
    ~\E h \in humans : /\ h.wallet_address = o.owner_wallet
                       /\ h.wallet_address # WalletOf(p)
                       /\ h.github_username = proc[p].call.author

Expired(p) == proc[p].call.round.age > ClaimMaxAge

\* C16, as claimed: after a re-claim that failed part-way, with the caller
\* retrying and the store failing no more, eventually every BotIdentity owned
\* by an old wallet of the username is owned by the new wallet.
C16_RetryAsClaimed == PartFailed(1) ~> AllMoved(1)

\* C16, amended: ... eventually every such BotIdentity is owned by the new
\* wallet, or the round the verification issue names has grown older than
\* the claim's freshness bound, after which every retry is rejected.
C16_RetryCompletes == PartFailed(1) ~> (AllMoved(1) \/ Expired(1))

\* A retry has finished the transfer that an earlier attempt left half done:
\* it listed one oracle only, and y and z are both with the new wallet.
C16_Witness ==
  /\ proc[1].pc = "done" /\ proc[1].status = 200 /\ proc[1].retried
  /\ Cardinality(proc[1].old) = 1 /\ proc[1].moved = proc[1].old
  /\ \A o \in oracles : o.birth_issue \in {"y", "z"} => o.owner_wallet = WalletOf(1)
  /\ AllMoved(1) /\ faults = 0

FamilyOf(w) == {o \in oracles : o.owner_wallet = w}

Range(seq) == {seq[i] : i \in DOMAIN seq}

Ascending(as) ==
  \A i \in DOMAIN as : \A j \in DOMAIN as : i < j => as[i].issue <= as[j].issue

NoTies(as) ==
  \A i \in DOMAIN as : \A j \in DOMAIN as : i # j => as[i].issue # as[j].issue

\* C17, as claimed: for one owner's set of BotIdentities the ordered
\* assignment list and the root are the same for every order in which the
\* store returns the set, sets with two birth issues of one sequence number
\* included.
C17_DeterministicAsClaimed ==
  \A w \in Wallets :
    \A items1 \in OwnerItems(oracles, w) : \A items2 \in OwnerItems(oracles, w) :
      /\ OraclesToAssignments(items1) = OraclesToAssignments(items2)
      /\ GetOwnerMerkle(items1).root = GetOwnerMerkle(items2).root

\* C17, amended: the root is the same for every order of the set, and so is
\* the assignment list as a set, always ascending by sequence number; the
\* ordered list is the same for every order when no two of the birth issues
\* carry the same sequence number.
C17_Deterministic ==
  \A w \in Wallets :
    \A items1 \in Perms(FamilyOf(w)) : \A items2 \in Perms(FamilyOf(w)) :
      LET as1 == OraclesToAssignments(items1)
          as2 == OraclesToAssignments(items2)
      IN /\ GetOwnerMerkle(items1).root = GetOwnerMerkle(items2).root
         /\ Range(as1) = Range(as2) /\ Len(as1) = Len(as2)
         /\ Ascending(as1)
         /\ NoTies(as1) => as1 = as2

\* The store can return a family in two orders that give two assignment
\* lists, of three leaves, and one root.
C17_Witness ==
  \E w \in Wallets :
    \E items1 \in OwnerItems(oracles, w) : \E items2 \in OwnerItems(oracles, w) :
      /\ OraclesToAssignments(items1) # OraclesToAssignments(items2)
      /\ Len(OraclesToAssignments(items1)) = 3
      /\ GetOwnerMerkle(items1).root = GetOwnerMerkle(items2).root

\* The owner's assignments, told from the store without the builder.
Qualifying(w) ==
  {Assignment(o.bot_wallet, o.birth_issue, ExtractIssueNumber(o.birth_issue).n) :
     o \in {q \in FamilyOf(w) : /\ q.bot_wallet # NoWallet
                                /\ ExtractIssueNumber(q.birth_issue).found
                                /\ ExtractIssueNumber(q.birth_issue).n > 0}}

\* C18: a family-proof request for an owner and a sequence number n returns
\* not-found exactly when the owner has no qualifying assignment with n;
\* otherwise it returns a leaf that is one of the owner's assignments with n,
\* and the root of the owner's full tree.
C18_FamilyProof ==
  \A wallet \in MerkleWallets : \A n \in MerkleIssues \ {0} :
    \A items \in OwnerItems(oracles, ToLowerCase(wallet)) :
      LET out == MerkleProof(n, items)
          mine == {a \in Qualifying(ToLowerCase(wallet)) : a.issue = n}
      IN /\ out.status = 404 <=> mine = {}
         /\ out.status # 404
            => /\ out.status = 200
               /\ \E a \in mine : out.leaf = ToLeafTuple(a)
               /\ \A other \in OwnerItems(oracles, ToLowerCase(wallet)) :
                    out.root = MerkleOwner(other).root

\* A proof was answered with a leaf that is not the first of the tree.
C18_Witness ==
  /\ proc # <<>> /\ proc[1].kind = "proof"
  /\ proc[1].response.status = 200 /\ proc[1].response.leaf_index > 0
  /\ \E o \in FamilyOf(ToLowerCase(proc[1].wallet)) :
       ExtractIssueNumber(o.birth_issue).n # proc[1].issue

\* The steps of a claim attempt before resolution: 1 the verification issue
\* is fetched, 2 the wallet and the birth issue are extracted, 3 the embedded
\* signature is verified, 4 the round is fresh, 5 the birth issue is fetched,
\* 6 the authors match.  Whether the request fails a step, and the error
\* kinds of each step.
FailsStep(req, k) ==
  CASE k = 1 -> req.url # "ok"
    [] k = 2 -> req.wallet = None \/ req.birth = None
    [] k = 3 -> /\ req.sig # None
                /\ req.sig = Malformed \/ ToLowerCase(req.sig) # ToLowerCase(req.wallet)
    [] k = 4 -> req.round.kind # "ok" \/ req.round.age > ClaimMaxAge
    [] k = 5 -> req.birth \in {"badurl", "unfetchable"}
    [] k = 6 -> req.birth \in Births /\ req.author # BirthAuthor[req.birth]

StepErrors(k) ==
  CASE k = 1 -> {"MissingField", "InvalidUrl", "VerificationIssueUnavailable"}
    [] k = 2 -> {"MissingWallet", "MissingBirthIssue"}
    [] k = 3 -> {"InvalidEmbeddedSignature", "EmbeddedSignatureMismatch"}
    [] k = 4 -> {"MissingRound", "VerificationFailed", "NonceExpired"}
    [] k = 5 -> {"InvalidBirthUrl", "BirthIssueUnavailable"}
    [] k = 6 -> {"AuthorMismatch"}

\* The request fails step order[i] and none of the steps before it.
FailsFirst(req, order, i) ==
  /\ FailsStep(req, order[i])
  /\ \A j \in 1..(i - 1) : ~FailsStep(req, order[j])

\* Every claim that fails a step ends with the error of the first step, in
\* this order, that it fails, and has written nothing and issued no token.
ChecksInOrder(order) ==
  \A req \in ClaimRequests :
    LET out == VerifyIdentity(req, humans, oracles)
    IN \A i \in DOMAIN order :
         FailsFirst(req, order, i)
         => /\ out.error \in StepErrors(order[i])
            /\ out.humans = humans /\ out.oracles = oracles /\ out.token = None

IsBot(w) == \E o \in oracles : o.bot_wallet = w
IsHuman(w) == \E h \in humans : h.wallet_address = w

\* The actor is what the store says of the wallet: bot before human before
\* unknown.
RightActor(actor, w) ==
  IF IsBot(w)
    THEN /\ actor.type = "oracle"
         /\ \E o \in oracles : o.bot_wallet = w /\ actor.ref = o.birth_issue
  ELSE IF IsHuman(w)
    THEN /\ actor.type = "human"
         /\ \E h \in humans : h.wallet_address = w /\ actor.name = HumanName(h)
  ELSE actor = Actor("unknown", "User-" \o Slice2To8(w), None)

ResolverRight ==
  /\ \A actorWallets \in SUBSET Wallets :
       \A actorMap \in EnrichActors(actorWallets, humans, oracles) :
         \A w \in actorWallets : RightActor(ActorOf(actorMap, w), w)
  /\ \A i \in DOMAIN proc :
       \A item \in proc[i].items : RightActor(item.actor, item.n.actor_wallet)

\* C21: the resolver maps a wallet that is a bot wallet (a human's wallet as
\* well or not) to the bot, a wallet that is only a human's to the human, and
\* any other wallet to an unknown actor named from its prefix; and the
\* listing that resolves the actors writes nothing to the store.
C21_ActorResolver ==
  /\ []ResolverRight
  /\ [][(\E wallet \in Wallets : NotificationsList(wallet))
          => UNCHANGED <<storeVars, feedVars>>]_vars

\* An inbox has been listed in which a wallet that is a human's and a bot's
\* shows as the bot, and another wallet as unknown.
C21_Witness ==
  \E i \in DOMAIN proc :
    /\ \E item \in proc[i].items :
         /\ item.actor.type = "oracle"
         /\ IsHuman(item.n.actor_wallet)
    /\ \E item \in proc[i].items : item.actor.type = "unknown"

\* C22: no stored notification has its actor as its recipient.
C22_NoSelfNotification ==
  \A n \in notifications :
    ToLowerCase(n.actor_wallet) # ToLowerCase(n.recipient_wallet)

\* Someone has commented on their own post, and no notification tells of
\* that comment, while another notification is stored.
C22_Witness ==
  /\ notifications # {}
  /\ \E c \in comments : \E p \in posts :
       /\ p.id = c.post
       /\ ResolvePostOwnerWallet(p, oracles) = c.author_wallet
       /\ \A n \in notifications : n.comment_id # c.id

\* C23: no notification is created whose actor is the bot wallet of an
\* oracle that the recipient owns.
C23_OwnBotSuppressed ==
  \A n \in notifications :
    ~\E o \in oracles : /\ o.bot_wallet = ToLowerCase(n.actor_wallet)
                        /\ o.owner_wallet = ToLowerCase(n.recipient_wallet)

\* No vote request is under way.
VotesSettled == \A p \in DOMAIN proc : proc[p].pc \in {"idle", "done"}

VotesOf(value) == {v \in votes : v.target_id = VotedPost /\ v.value = value}

\* C24: after any interleaving of vote requests on a post that began with no
\* votes, the post's upvotes is the number of vote rows with value +1, its
\* downvotes the number with value -1, and its score their difference.
C24_CountsMatchVotes ==
  VotesSettled
  => \A post \in posts :
       /\ post.upvotes = Cardinality(VotesOf(Up))
       /\ post.downvotes = Cardinality(VotesOf(Down))
       /\ post.score = post.upvotes - post.downvotes

\* The request's embedded signature, or its sign-in message, was verified as
\* made by this wallet.
SignedBy(req, wallet) ==
  \/ req.sig \notin {None, Malformed} /\ ToLowerCase(req.sig) = wallet
  \/ ProvesWallet(req) /\ ToLowerCase(req.siwe.signer) = wallet

\* A sign-in that issues a token has verified its message's signature as
\* made by the token's subject.
SignInSubjectSigned ==
  \A req \in SignInRequests :
    LET out == HumansVerify(req, humans, oracles)
    IN out.status = 200
       => /\ req.siwe.present /\ req.siwe.signer # Malformed
          /\ out.token.sub = ToLowerCase(req.siwe.signer)
          /\ out.token.sub = ToLowerCase(req.siwe.address)

\* C25, as claimed: every token of the sign-in flow and of the claim flow has
\* as subject a wallet whose signature the same request verified.
C25_SubjectSignedAsClaimed ==
  /\ SignInSubjectSigned
  /\ \A req \in ClaimRequests :
       LET out == VerifyIdentity(req, humans, oracles)
       IN out.status = 200 => SignedBy(req, out.token.sub)

\* C25, amended: that holds of the sign-in flow; a token of the claim flow
\* has as subject the wallet extracted from the verification issue, and the
\* issue's embedded signature, if it has one, was verified as made by it.
C25_SubjectSigned ==
  /\ SignInSubjectSigned
  /\ \A req \in ClaimRequests :
       LET out == VerifyIdentity(req, humans, oracles)
       IN out.status = 200
          => /\ req.wallet # None /\ out.token.sub = ToLowerCase(req.wallet)
             /\ req.sig # None => SignedBy(req, out.token.sub)

\* A claim without any signature is issued a token, and so is a claim with
\* an embedded signature, against a store that is not empty.
C25_Witness ==
  /\ oracles # {}
  /\ \E req \in ClaimRequests :
       /\ req.sig = None /\ ~req.siwe.present
       /\ VerifyIdentity(req, humans, oracles).status = 200
  /\ \E req \in ClaimRequests :
       /\ req.sig # None
       /\ VerifyIdentity(req, humans, oracles).status = 200

\* The oracles whose owner the request has changed, each with its new owner.
OwnerChanges(O, P) ==
  {<<o.birth_issue, q.owner_wallet>> :
     <<o, q>> \in {pair \in O \X P : /\ pair[1].birth_issue = pair[2].birth_issue
                                     /\ pair[1].owner_wallet # pair[2].owner_wallet}}

\* Bot wallet assignment changes no owner (and sign-in writes no oracle).
OnlyClaimsChangeOwners ==
  \A req \in AssignRequests :
    OwnerChanges(oracles, OraclesWallet(req, oracles).oracles) = {}

\* C26, as claimed: the owner of an existing BotIdentity changes to a
\* different wallet B only in a request with a signature verified as B's.
C26_OwnerChangeSignedAsClaimed ==
  /\ OnlyClaimsChangeOwners
  /\ \A req \in ClaimRequests :
       \A change \in OwnerChanges(oracles, VerifyIdentity(req, humans, oracles).oracles) :
         SignedBy(req, change[2])

\* C26, amended: it changes only in a claim that passes its checks, B being
\* the wallet extracted from the verification issue, and either the
\* BotIdentity is the one the claim names or the request carries a sign-in
\* message with a signature verified as B's.
C26_OwnerChange ==
  /\ OnlyClaimsChangeOwners
  /\ \A req \in ClaimRequests :
       \A change \in OwnerChanges(oracles, VerifyIdentity(req, humans, oracles).oracles) :
         /\ ClaimChecks(req, oracles)[1] = 200
         /\ change[2] = ToLowerCase(req.wallet)
         /\ \/ change[1] = req.birth /\ req.author = BirthAuthor[req.birth]
            \/ ProvesWallet(req) /\ ToLowerCase(req.siwe.signer) = change[2]

\* A claim without any signature takes over the oracle it names, and a claim
\* with a sign-in proof takes over another oracle as well.
C26_Witness ==
  /\ \E req \in ClaimRequests :
       /\ req.sig = None /\ ~req.siwe.present
       /\ OwnerChanges(oracles, VerifyIdentity(req, humans, oracles).oracles) # {}
  /\ \E req \in ClaimRequests :
       \E change \in OwnerChanges(oracles, VerifyIdentity(req, humans, oracles).oracles) :
         change[1] # req.birth

\* C27: an oracle whose wallet_verified flag is set has a bot wallet whose
\* holder has signed in as an agent: the agents collection, which only a
\* signed agent sign-in writes, holds that wallet.
C27_VerifiedBotSignedIn ==
  \A o \in oracles :
    o.wallet_verified => \E a \in agents : a.wallet_address = o.bot_wallet

InRoundWindow(req) ==
  /\ 0 <= req.latest.roundId - req.nonce
  /\ req.latest.roundId - req.nonce <= MaxRoundDistance

\* C29: a round-distance sign-in, human or agent, succeeds only with a nonce
\* at most ten rounds behind the latest round and not ahead of it.
C29_RoundWindow ==
  /\ \A req \in RoundSignIns :
       HumansVerifyByRound(req, humans).status = 200 => InRoundWindow(req)
  /\ \A p \in Procs :
       proc[p].kind = "agent" /\ proc[p].status = 200 => InRoundWindow(proc[p].call)

\* C28: a claim that ends in an error has written nothing: the humans and
\* the oracles it leaves are the ones it found.
C28_ErrorWritesNothing ==
  \A req \in ClaimRequests :
    LET out == VerifyIdentity(req, humans, oracles)
    IN out.status # 200 => out.humans = humans /\ out.oracles = oracles

\* The sign-in message is outside its validity window.
OutOfDate(siwe) == siwe.present /\ (siwe.expired \/ siwe.notYet)

\* C30: a claim whose sign-in message is expired or not yet valid triggers
\* no re-claim: it changes the owner of no oracle but the one it names.
C30_StaleProofMovesNothing ==
  \A req \in ClaimRequests :
    OutOfDate(req.siwe) =>
      \A change \in OwnerChanges(oracles, VerifyIdentity(req, humans, oracles).oracles) :
        change[1] = req.birth

====
